---------------------------- MODULE Spec2Model ----------------------------
(***************************************************************************)
(* nvidia-fan-control: the fan-speed decision engine of main.go.           *)
(*                                                                         *)
(* The module models                                                       *)
(*   - the step policy            getFanSpeedForTemperature                *)
(*   - the curve profile builder  buildCurveProfileFromRanges              *)
(*   - the curve speed lookup     curveSpeedForTempWithProfile, with the   *)
(*     float64 arithmetic of its interpolation done bit by bit             *)
(*   - the monitoring loop        runMonitoringLoop, one action per        *)
(*     iteration of its loop over the devices                              *)
(*   - the command line           main, as far as the daemon is concerned  *)
(* Sequences are 1-based: device i of the source is device i+1 here, and   *)
(* fan fanIdx of the source is fan fanIdx+1.                               *)
(***************************************************************************)
EXTENDS Integers, Sequences, FiniteSets, TLC

VARIABLES
    config,             \* Config: [TemperatureRanges, Curve]
    fma,                \* the build fuses x*y + z into one rounding (Go allows both)
    useCurve,           \* runMonitoringLoop: useCurve
    prof,               \* runMonitoringLoop: prof (curveProfile)
    fanCounts,          \* per device: number of controllable fans
    prevTemps,          \* per device: lastKnownTemp
    prevFanSpeeds,      \* per device, per fan: lastKnownSpeed
    inAuto,             \* per device: TRUE = AUTO, FALSE = MANUAL
    lastFanChangeTemp,  \* per device: lastChangeTemp
    idx,                \* the device the loop of the current tick is at
    read,               \* what the last loop iteration read from the hardware
    calls,              \* the hardware writes the last loop iteration issued
    gamemode,           \* argument of the last `gamemode` command line
    hwPolicy,           \* the fan policies the devices hold, where they are followed
    call,               \* pure-function harness: the function applied and its arguments
    result              \* pure-function harness: what it returned

vars == <<config, fma, useCurve, prof, fanCounts, prevTemps, prevFanSpeeds,
          inAuto, lastFanChangeTemp, idx, read, calls, gamemode, hwPolicy, call, result>>

-----------------------------------------------------------------------------
(* Small helpers of the source.                                            *)

abs(x) == IF x < 0 THEN -x ELSE x

(* Faulty variant: no upper bound.                                         *)
clampIntBelowOnly(x, lo, hi) == IF x < lo THEN lo ELSE x

clampInt(x, lo, hi) == IF x < lo THEN lo ELSE IF x > hi THEN hi ELSE x

TemperatureRange(mn, mx, sp, hy) ==
    [MinTemperature |-> mn, MaxTemperature |-> mx, FanSpeed |-> sp, Hysteresis |-> hy]

curvePoint(t, s, h) == [temp |-> t, speed |-> s, hyst |-> h]

(* The zero value of curveProfile (var prof curveProfile).                 *)
ZeroProfile == [floorEndTemp |-> 0, floorSpeed |-> 0, floorHyst |-> 0, points |-> <<>>]

-----------------------------------------------------------------------------
(* Step policy.                                                            *)

(* Faulty variant: the lower bound included.                               *)
RangeMatchesLoose(temp, r) == temp >= r.MinTemperature /\ temp <= r.MaxTemperature
(* r contains temp: temp > r.MinTemperature && temp <= r.MaxTemperature    *)
RangeMatches(temp, r) == temp > r.MinTemperature /\ temp <= r.MaxTemperature

(* Faulty variant: 0 when no range contains temp.                          *)
RECURSIVE getFanSpeedForTemperatureOrZero(_, _, _, _)
getFanSpeedForTemperatureOrZero(temp, prevTemp, prevSpeed, ranges) ==
    IF ranges = <<>> THEN 0
    ELSE LET r == Head(ranges) IN
         IF RangeMatches(temp, r)
         THEN IF abs(temp - prevTemp) >= r.Hysteresis \/ prevSpeed # r.FanSpeed
              THEN r.FanSpeed
              ELSE prevSpeed
         ELSE getFanSpeedForTemperatureOrZero(temp, prevTemp, prevSpeed, Tail(ranges))

(* Faulty variant: the speed is held whenever the temperature is within    *)
(* the hysteresis (&& in place of ||).                                     *)
RECURSIVE getFanSpeedForTemperatureHeld(_, _, _, _)
getFanSpeedForTemperatureHeld(temp, prevTemp, prevSpeed, ranges) ==
    IF ranges = <<>> THEN prevSpeed
    ELSE LET r == Head(ranges) IN
         IF RangeMatches(temp, r)
         THEN IF abs(temp - prevTemp) >= r.Hysteresis /\ prevSpeed # r.FanSpeed
              THEN r.FanSpeed
              ELSE prevSpeed
         ELSE getFanSpeedForTemperatureHeld(temp, prevTemp, prevSpeed, Tail(ranges))

RECURSIVE getFanSpeedForTemperature(_, _, _, _)
getFanSpeedForTemperature(temp, prevTemp, prevSpeed, ranges) ==
    IF ranges = <<>> THEN prevSpeed
    ELSE LET r == Head(ranges) IN
         IF RangeMatches(temp, r)
         THEN IF abs(temp - prevTemp) >= r.Hysteresis \/ prevSpeed # r.FanSpeed
              THEN r.FanSpeed
              ELSE prevSpeed
         ELSE getFanSpeedForTemperature(temp, prevTemp, prevSpeed, Tail(ranges))

-----------------------------------------------------------------------------
(* Curve profile builder.                                                  *)

(* A faulty variant of RangeLess: by min alone.                             *)
RangeLessMinOnly(x, y) == x.MinTemperature < y.MinTemperature

(* The less function of the first sort.SliceStable: by (min, max).         *)
RangeLess(x, y) ==
    IF x.MinTemperature = y.MinTemperature
    THEN x.MaxTemperature < y.MaxTemperature
    ELSE x.MinTemperature < y.MinTemperature

(* The less function of the second sort.SliceStable: by temp.              *)
PointLess(x, y) == x.temp < y.temp

(* sort.SliceStable: equal elements keep their order.  x goes in front of  *)
(* the first element it is less than.                                      *)
RECURSIVE InsertRange(_, _)
InsertRange(x, s) ==
    IF s = <<>> THEN <<x>>
    ELSE IF RangeLess(x, Head(s)) THEN <<x>> \o s
    ELSE <<Head(s)>> \o InsertRange(x, Tail(s))

RECURSIVE SortRanges(_)
SortRanges(s) ==
    IF s = <<>> THEN <<>>
    ELSE InsertRange(s[Len(s)], SortRanges(SubSeq(s, 1, Len(s) - 1)))

RECURSIVE InsertPoint(_, _)
InsertPoint(x, s) ==
    IF s = <<>> THEN <<x>>
    ELSE IF PointLess(x, Head(s)) THEN <<x>> \o s
    ELSE <<Head(s)>> \o InsertPoint(x, Tail(s))

RECURSIVE SortPoints(_)
SortPoints(s) ==
    IF s = <<>> THEN <<>>
    ELSE InsertPoint(s[Len(s)], SortPoints(SubSeq(s, 1, Len(s) - 1)))

(* pts: one point per range rs[1..] (0-based in the source), in order.     *)
RangePoints(rs) ==
    [k \in 1..(Len(rs) - 1) |->
        curvePoint(rs[k + 1].MinTemperature,
                   clampInt(rs[k + 1].FanSpeed, 0, 100),
                   rs[k + 1].Hysteresis)]

(* A faulty variant of Dedup: the first point of a temp is kept.            *)
RECURSIVE DedupFirstWins(_, _)
DedupFirstWins(pts, dedup) ==
    IF pts = <<>> THEN dedup
    ELSE LET p == Head(pts) IN
         IF dedup = <<>> THEN DedupFirstWins(Tail(pts), <<p>>)
         ELSE IF dedup[Len(dedup)].temp = p.temp
              THEN DedupFirstWins(Tail(pts), dedup)
              ELSE DedupFirstWins(Tail(pts), Append(dedup, p))

(* The dedupe loop: a point with the temp of the last kept one replaces it. *)
RECURSIVE Dedup(_, _)
Dedup(pts, dedup) ==
    IF pts = <<>> THEN dedup
    ELSE LET p == Head(pts) IN
         IF dedup = <<>> THEN Dedup(Tail(pts), <<p>>)
         ELSE IF dedup[Len(dedup)].temp = p.temp
              THEN Dedup(Tail(pts), [dedup EXCEPT ![Len(dedup)] = p])
              ELSE Dedup(Tail(pts), Append(dedup, p))

(* The caller's slice after the call: the builder sorts rs, a copy made    *)
(* with make and copy, so the slice it was given keeps its order.          *)
rangesAfterBuild(ranges) == ranges

(* Returns [prof, err]; err = TRUE is the "no temperature_ranges provided" *)
(* error, returned with the zero profile.                                  *)
buildCurveProfileFromRanges(ranges) ==
    IF Len(ranges) = 0 THEN [prof |-> ZeroProfile, err |-> TRUE]
    ELSE LET rs    == SortRanges(ranges)
             floor == rs[1]
         IN [prof |-> [floorEndTemp |-> floor.MaxTemperature,
                       floorSpeed   |-> clampInt(floor.FanSpeed, 0, 100),
                       floorHyst    |-> floor.Hysteresis,
                       points       |-> Dedup(SortPoints(RangePoints(rs)), <<>>)],
             err  |-> FALSE]

-----------------------------------------------------------------------------------------------------------------------------------------------------
(* float64 arithmetic, as far as the interpolation uses it.  A natural     *)
(* number is a sequence of limbs (digits to the base 2^LimbBits), least    *)
(* significant first, without leading zeros; a float64 value is            *)
(* [neg, limbs, sh], standing for (-1)^neg * limbs / 2^sh.  Exponent range *)
(* and subnormals are out of reach of integer operands of this size and    *)
(* are not modelled.                                                       *)

Mantissa == 53      \* bits of a float64 significand
LimbBits == 15
QuotLimbs == 5      \* limbs of a quotient: more than Mantissa + LimbBits bits

Base == 2 ^ LimbBits

(* Number of bits of x, 0 < x < Base.                                      *)
BitLen(x) == CHOOSE n \in 1..LimbBits : 2 ^ (n - 1) <= x /\ x < 2 ^ n

RECURSIVE StripLimbs(_)
StripLimbs(a) ==
    CHOOSE r \in
      { IF v = <<>> THEN <<>>
        ELSE IF v[Len(v)] = 0 THEN StripLimbs(SubSeq(v, 1, Len(v) - 1)) ELSE v
        : v \in {a} } : TRUE

(* a + b + c, from limb i on.                                              *)
RECURSIVE AddLimbs(_, _, _, _)
AddLimbs(a, b, c, i) ==
    IF i > Len(a) /\ i > Len(b) THEN (IF c = 0 THEN <<>> ELSE <<c>>)
    ELSE CHOOSE r \in
           { <<s % Base>> \o AddLimbs(a, b, s \div Base, i + 1)
             : s \in {(IF i > Len(a) THEN 0 ELSE a[i])
                        + (IF i > Len(b) THEN 0 ELSE b[i]) + c} } : TRUE

(* a - b - c for a >= b + c, from limb i on; leading zeros not stripped.   *)
RECURSIVE SubLimbs(_, _, _, _)
SubLimbs(a, b, c, i) ==
    IF i > Len(a) THEN <<>>
    ELSE CHOOSE r \in
           { <<d % Base>> \o SubLimbs(a, b, IF d < 0 THEN 1 ELSE 0, i + 1)
             : d \in {a[i] - (IF i > Len(b) THEN 0 ELSE b[i]) - c} } : TRUE

(* a < b, looking at the limbs up to i.                                    *)
RECURSIVE LessLimbs(_, _, _)
LessLimbs(a, b, i) ==
    IF Len(a) # Len(b) THEN Len(a) < Len(b)
    ELSE IF i = 0 THEN FALSE
    ELSE IF a[i] # b[i] THEN a[i] < b[i]
    ELSE LessLimbs(a, b, i - 1)

(* a * k + c for a small k >= 0, from limb i on.                           *)
RECURSIVE MulLimbs(_, _, _, _)
MulLimbs(a, k, c, i) ==
    IF i > Len(a) THEN (IF c = 0 THEN <<>> ELSE <<c>>)
    ELSE CHOOSE r \in
           { <<s % Base>> \o MulLimbs(a, k, s \div Base, i + 1)
             : s \in {a[i] * k + c} } : TRUE

F64Zero == [neg |-> FALSE, limbs |-> <<>>, sh |-> 0]

(* Bit p (from 0) of the number a.                                         *)
BitAt(a, p) == (a[(p \div LimbBits) + 1] \div (2 ^ (p % LimbBits))) % 2

(* Some bit below bit p of a is set.                                       *)
AnyBitBelow(a, p) ==
    \/ \E i \in 1..(p \div LimbBits) : a[i] # 0
    \/ a[(p \div LimbBits) + 1] % (2 ^ (p % LimbBits)) # 0

(* a with the bits below bit p cleared.                                    *)
ClearBelow(a, p) ==
    [i \in 1..Len(a) |->
        IF i <= p \div LimbBits THEN 0
        ELSE IF i = (p \div LimbBits) + 1
             THEN (a[i] \div (2 ^ (p % LimbBits))) * (2 ^ (p % LimbBits))
             ELSE a[i]]

(* The number 2^p.                                                         *)
PowerOfTwo(p) == [i \in 1..((p \div LimbBits) + 1) |->
                     IF i = (p \div LimbBits) + 1 THEN 2 ^ (p % LimbBits) ELSE 0]

(* Rounding of a value to float64: the nearest value with a 53-bit         *)
(* significand, ties to the even significand.  inexact: the value is a     *)
(* little more than x says (what a division left over).                    *)
RoundLimbs(l, inexact) ==
    IF l = <<>> THEN l
    ELSE CHOOSE r \in
           { IF drop <= 0 THEN l
             ELSE LET half   == BitAt(l, drop - 1)
                      sticky == inexact \/ AnyBitBelow(l, drop - 1)
                      up     == half = 1 /\ (sticky \/ BitAt(l, drop) = 1)
                  IN CHOOSE q \in
                       { IF up THEN AddLimbs(cut, one, 0, 1) ELSE cut
                         : cut \in {ClearBelow(l, drop)}, one \in {PowerOfTwo(drop)} } : TRUE
             : drop \in {LimbBits * (Len(l) - 1) + BitLen(l[Len(l)]) - Mantissa} } : TRUE

(* The operators below take each operand as a value v, computed once.      *)
RoundToF64(x, inexact) ==
    CHOOSE r \in { [v EXCEPT !.limbs = RoundLimbs(v.limbs, inexact)] : v \in {x} } : TRUE

(* Long division of rem/d, rem < d: j limbs of the quotient ...            *)
RECURSIVE DivLimbs(_, _, _)
DivLimbs(rem, d, j) ==
    IF j = 0 THEN <<>>
    ELSE CHOOSE r \in
           { Append(DivLimbs(x % d, d, j - 1), x \div d) : x \in {rem * Base} } : TRUE

(* ... and what is left after them.                                        *)
RECURSIVE DivRem(_, _, _)
DivRem(rem, d, j) ==
    IF j = 0 THEN rem
    ELSE CHOOSE r \in { DivRem(x, d, j - 1) : x \in {(rem * Base) % d} } : TRUE

(* float64(n) / float64(d) for integers 0 <= n < d: the correctly rounded  *)
(* quotient.                                                               *)
F64Quot(n, d) ==
    IF n = 0 THEN F64Zero
    ELSE RoundToF64([neg |-> FALSE, limbs |-> StripLimbs(DivLimbs(n, d, QuotLimbs)),
                     sh |-> LimbBits * QuotLimbs], DivRem(n, d, QuotLimbs) # 0)

(* The exact product of a float64 value and an integer.                    *)
ExactMulInt(t, k) ==
    CHOOSE r \in
      { IF k = 0 \/ v.limbs = <<>> THEN [F64Zero EXCEPT !.sh = v.sh]
        ELSE [neg |-> (k < 0) # v.neg, limbs |-> MulLimbs(v.limbs, abs(k), 0, 1),
              sh |-> v.sh]
        : v \in {t} } : TRUE

(* The exact sum of an integer (below Base) and a float64 value whose sh   *)
(* is a number of whole limbs.                                             *)
ExactAddInt(a, x) ==
    CHOOSE r \in
      { LET xl == v.limbs
            w  == v.sh \div LimbBits
            al == IF a = 0 THEN <<>>
                  ELSE [i \in 1..(w + 1) |-> IF i = w + 1 THEN abs(a) ELSE 0]
            an == a < 0
        IN [sh    |-> LimbBits * w,
            neg   |-> IF xl = <<>> THEN an
                      ELSE IF al = <<>> THEN v.neg
                      ELSE IF al = xl THEN FALSE
                      ELSE IF LessLimbs(al, xl, Len(al)) THEN v.neg ELSE an,
            limbs |-> IF xl = <<>> THEN al
                      ELSE IF al = <<>> THEN xl
                      ELSE IF an = v.neg THEN AddLimbs(al, xl, 0, 1)
                      ELSE IF al = xl THEN <<>>
                      ELSE IF LessLimbs(al, xl, Len(al))
                           THEN StripLimbs(SubLimbs(xl, al, 0, 1))
                           ELSE StripLimbs(SubLimbs(al, xl, 0, 1))]
        : v \in {x} } : TRUE

(* int(math.Round(x)): to the nearest integer, halves away from zero (for  *)
(* a value below Base whose sh is a number of whole limbs).                *)
RoundToInt(x) ==
    CHOOSE r \in
      { LET w    == v.sh \div LimbBits
            int  == IF Len(v.limbs) > w THEN v.limbs[w + 1] ELSE 0
            half == IF w >= 1 /\ Len(v.limbs) >= w /\ v.limbs[w] >= Base \div 2
                    THEN 1 ELSE 0
        IN IF v.neg THEN -(int + half) ELSE int + half
        : v \in {x} } : TRUE

(* val := float64(a.speed) + t*float64(b.speed-a.speed) with               *)
(* t := float64(temp-a.temp) / float64(den).  A build that fuses the       *)
(* multiplication and the addition rounds once, one that does not rounds   *)
(* the product first.                                                      *)
InterpolatedValue(temp, a, b, fused) ==
    LET t    == F64Quot(temp - a.temp, b.temp - a.temp)
        prod == ExactMulInt(t, b.speed - a.speed)
    IN IF fused THEN RoundToF64(ExactAddInt(a.speed, prod), FALSE)
       ELSE RoundToF64(ExactAddInt(a.speed, RoundToF64(prod, FALSE)), FALSE)

-----
(* Curve speed lookup: returns <<speed, hysteresisUsed>>.                  *)

(* The segment loop, from index i on (1-based).                            *)
RECURSIVE Segment(_, _, _, _)
Segment(temp, points, i, fused) ==
    IF i > Len(points) - 1
    THEN <<points[Len(points)].speed, points[Len(points)].hyst>>
    ELSE LET a == points[i]
             b == points[i + 1]
         IN IF temp >= a.temp /\ temp < b.temp
            THEN IF b.temp - a.temp <= 0 THEN <<a.speed, a.hyst>>
                 ELSE <<clampInt(RoundToInt(InterpolatedValue(temp, a, b, fused)), 0, 100),
                        a.hyst>>
            ELSE Segment(temp, points, i + 1, fused)

(* Faulty variant: the ceiling clamp before the floor clamp.               *)
curveSpeedCeilingFirst(temp, p) ==
    IF Len(p.points) # 0 /\ temp >= p.points[Len(p.points)].temp
    THEN <<p.points[Len(p.points)].speed, p.points[Len(p.points)].hyst>>
    ELSE IF temp < p.floorEndTemp THEN <<p.floorSpeed, p.floorHyst>>
    ELSE IF Len(p.points) = 0 THEN <<p.floorSpeed, p.floorHyst>>
    ELSE IF temp < p.points[1].temp THEN <<p.floorSpeed, p.floorHyst>>
    ELSE Segment(temp, p.points, 1, fma)
curveSpeedForTempWithProfile(temp, p) ==
    IF temp < p.floorEndTemp THEN <<p.floorSpeed, p.floorHyst>>
    ELSE IF Len(p.points) = 0 THEN <<p.floorSpeed, p.floorHyst>>
    ELSE IF temp < p.points[1].temp THEN <<p.floorSpeed, p.floorHyst>>
    ELSE IF temp >= p.points[Len(p.points)].temp
         THEN <<p.points[Len(p.points)].speed, p.points[Len(p.points)].hyst>>
    ELSE Segment(temp, p.points, 1, fma)

-----------------------------------------------------------------------------
(* The hardware collaborator (NVML).  Every call is fallible; what it      *)
(* returns is an input of the step that makes it.                          *)

SUCCESS == "SUCCESS"
ERROR_NOT_SUPPORTED == "ERROR_NOT_SUPPORTED"
ERROR_UNKNOWN == "ERROR_UNKNOWN"
NOT_CALLED == "not called"

FAN_POLICY_MANUAL == "FAN_POLICY_MANUAL"
FAN_POLICY_TEMPERATURE_CONTINOUS_SW == "FAN_POLICY_TEMPERATURE_CONTINOUS_SW"

(* What the two writes of one fan return: DeviceSetFanControlPolicy, and   *)
(* DeviceSetFanSpeed_v2 if it comes to that.                               *)
FanReturns ==
    {[policy |-> SUCCESS, speed |-> SUCCESS],
     [policy |-> SUCCESS, speed |-> ERROR_UNKNOWN],
     [policy |-> ERROR_NOT_SUPPORTED, speed |-> NOT_CALLED],
     [policy |-> ERROR_UNKNOWN, speed |-> NOT_CALLED]}

SetPolicyCall(fanIdx, policy, ret) ==
    [fn |-> "DeviceSetFanControlPolicy", fan |-> fanIdx, policy |-> policy,
     speed |-> 0, ret |-> ret]

SetSpeedCall(fanIdx, speed, ret) ==
    [fn |-> "DeviceSetFanSpeed_v2", fan |-> fanIdx, policy |-> "",
     speed |-> speed, ret |-> ret]

(* What an iteration read: the device handle and the temperature; repeat   *)
(* tells that the temperature is the one prevTemps[i] held.                *)
Reading(dev, handle, tempRet, temp, repeat) ==
    [dev |-> dev, handle |-> handle, tempRet |-> tempRet, temp |-> temp,
     repeat |-> repeat]

-----------------------------------------------------------------------------
(* Bounds and inputs of the daemon model.                                  *)

NumDevices == 2
MaxFans == 2

Devices == 1..NumDevices

(* Temperatures the hardware reports at startup and in a tick.             *)
InitTemps == {20, 40}
TickTemps == {37, 38, 42, 43}
(* Fan speeds the hardware reports at startup (0 also stands for a failed  *)
(* read).                                                                  *)
InitSpeeds == {0, 30}

(* The configuration of the README and of the spec's examples.             *)
ReadmeRanges ==
    << TemperatureRange(0, 40, 30, 3),
       TemperatureRange(40, 60, 40, 3),
       TemperatureRange(60, 80, 70, 3),
       TemperatureRange(80, 100, 100, 3),
       TemperatureRange(100, 200, 100, 0) >>

(* An inverted range, then two overlapping ones, and nothing above 42.     *)
RaggedRanges ==
    << TemperatureRange(42, 38, 100, 0),
       TemperatureRange(37, 42, 40, 3),
       TemperatureRange(30, 38, 30, 0) >>

Configs ==
    { [TemperatureRanges |-> ReadmeRanges, Curve |-> TRUE],
      [TemperatureRanges |-> RaggedRanges, Curve |-> FALSE],
      [TemperatureRanges |-> <<>>, Curve |-> TRUE] }

(* One device with all the fans beside devices without any, or one fan on  *)
(* each of the first two devices.                                          *)
FanLayouts ==
    { [d \in Devices |-> IF d = 1 THEN MaxFans ELSE 0],
      [d \in Devices |-> IF d <= 2 THEN 1 ELSE 0] }

-----------------------------------------------------------------------------
(* The policy each fan holds: the one of the last                          *)
(* DeviceSetFanControlPolicy that succeeded for it, NOT_CALLED before the  *)
(* first.  The policies are followed from the start of the daemon up to    *)
(* the first hardware call that fails, and only where asked for.           *)
PoliciesNotFollowed == [status |-> "not followed", fan |-> [d \in Devices |-> <<>>]]
PoliciesLost == [status |-> "failed", fan |-> [d \in Devices |-> <<>>]]
PoliciesAtStart(counts) ==
    [status |-> "followed",
     fan |-> [d \in Devices |-> [f \in 1..counts[d] |-> NOT_CALLED]]]

(* The policy of fan f after the calls cs, which all succeeded.            *)
PolicyAfter(before, cs, f) ==
    LET at == { k \in DOMAIN cs : cs[k].fn = "DeviceSetFanControlPolicy" /\ cs[k].fan = f }
    IN IF at = {} THEN before
       ELSE cs[CHOOSE k \in at : \A j \in at : j <= k].policy

(* hwPolicy after an iteration at device d that made the calls cs; ok      *)
(* tells that the handle and the temperature were read.                    *)
Follow(log, d, ok, cs) ==
    IF log.status # "followed" THEN log
    ELSE IF ~ok \/ \E k \in DOMAIN cs : cs[k].ret # SUCCESS THEN PoliciesLost
    ELSE [log EXCEPT !.fan[d] = [f \in DOMAIN @ |-> PolicyAfter(@[f], cs, f)]]

-----------------------------------------------------------------------------
(* Startup: initializeDevices and the head of runMonitoringLoop.           *)

(* prevTemps[i] after the initial DeviceGetTemperature.                    *)
initialTemp(ret, temp) == IF ret = SUCCESS THEN temp ELSE 0

(* Faulty variant: AUTO at floorEndTemp too.                               *)
initialInAutoLoose(prevTemp, p) == prevTemp <= p.floorEndTemp
(* inAuto[i] = prevTemps[i] < prof.floorEndTemp                            *)
initialInAuto(prevTemp, p) == prevTemp < p.floorEndTemp

(* Faulty variant: the builder's error is ignored.                         *)
DaemonInitNoFallback ==
    /\ config \in Configs
    /\ fma \in BOOLEAN
    /\ LET built == buildCurveProfileFromRanges(config.TemperatureRanges) IN
       /\ useCurve = config.Curve
       /\ prof = IF config.Curve THEN built.prof ELSE ZeroProfile
    /\ fanCounts \in FanLayouts
    /\ \E rets \in [Devices -> {SUCCESS, ERROR_UNKNOWN}], temps \in [Devices -> InitTemps] :
           prevTemps = [d \in Devices |->
                           IF fanCounts[d] <= 0 THEN 0 ELSE initialTemp(rets[d], temps[d])]
    /\ \E speeds \in [Devices -> [1..MaxFans -> InitSpeeds]] :
           prevFanSpeeds = [d \in Devices |-> [f \in 1..fanCounts[d] |-> speeds[d][f]]]
    /\ inAuto = [d \in Devices |-> initialInAuto(prevTemps[d], prof)]
    /\ lastFanChangeTemp = prevTemps
    /\ idx = NumDevices + 1
    /\ read = Reading(0, NOT_CALLED, NOT_CALLED, 0, FALSE)
    /\ calls = <<>>
    /\ gamemode = "off"

DaemonInit ==
    /\ config \in Configs
    /\ fma \in BOOLEAN
    /\ LET built == buildCurveProfileFromRanges(config.TemperatureRanges) IN
       /\ useCurve = (config.Curve /\ ~built.err)
       /\ prof = IF config.Curve THEN built.prof ELSE ZeroProfile
    /\ fanCounts \in FanLayouts
    /\ \E rets \in [Devices -> {SUCCESS, ERROR_UNKNOWN}], temps \in [Devices -> InitTemps] :
           prevTemps = [d \in Devices |->
                           IF fanCounts[d] <= 0 THEN 0 ELSE initialTemp(rets[d], temps[d])]
    /\ \E speeds \in [Devices -> [1..MaxFans -> InitSpeeds]] :
           prevFanSpeeds = [d \in Devices |-> [f \in 1..fanCounts[d] |-> speeds[d][f]]]
    /\ inAuto = [d \in Devices |-> initialInAuto(prevTemps[d], prof)]
    /\ lastFanChangeTemp = prevTemps
    /\ idx = NumDevices + 1
    /\ read = Reading(0, NOT_CALLED, NOT_CALLED, 0, FALSE)
    /\ calls = <<>>
    /\ gamemode = "off"

(* No function is being called on its own.                                 *)
HarnessIdle == call = [fn |-> "none"] /\ result = <<>>

-----------------------------------------------------------------------------
(* One tick of runMonitoringLoop: the loop over the devices, one action    *)
(* per iteration (idx is the loop variable i; idx = NumDevices + 1 is the  *)
(* wait for the ticker).                                                   *)

(* Faulty variant: no deadband.                                            *)
decideInAutoNoDeadband(auto, tempInt, p) == tempInt < p.floorEndTemp
(* The deadband around floorEndTemp: the value of inAuto[i] after the      *)
(* mode decision.                                                          *)
decideInAuto(auto, tempInt, p) ==
    IF auto
    THEN ~(tempInt >= p.floorEndTemp + p.floorHyst)
    ELSE tempInt <= p.floorEndTemp - p.floorHyst

(* Faulty variant: the loop ends at the first failing call.                *)
AutoLoopUntilFailure(n, hw) ==
    LET failed == { f \in 1..n : hw[f].policy # SUCCESS }
        last   == IF failed = {} THEN n ELSE CHOOSE f \in failed : \A g \in failed : f <= g
    IN [f \in 1..last |-> SetPolicyCall(f, FAN_POLICY_TEMPERATURE_CONTINOUS_SW, hw[f].policy)]
(* The AUTO branch's loop over the fans: the calls it makes.               *)
AutoLoop(n, hw) ==
    [f \in 1..n |-> SetPolicyCall(f, FAN_POLICY_TEMPERATURE_CONTINOUS_SW, hw[f].policy)]

(* Faulty variant: the speed written before the policy is set.            *)
WriteFanSpeedFirst(fanIdx, newFanSpeed, ret, st) ==
    LET c1 == SetSpeedCall(fanIdx, newFanSpeed, ret.speed)
        c2 == SetPolicyCall(fanIdx, FAN_POLICY_MANUAL, ret.policy)
    IN IF ret.speed # SUCCESS /\ ret.policy # SUCCESS
       THEN [st EXCEPT !.calls = Append(@, c2)]
       ELSE [speeds |-> [st.speeds EXCEPT ![fanIdx] = newFanSpeed],
             calls  |-> st.calls \o <<c1, c2>>,
             any    |-> TRUE]
(* Faulty variant: the speed is stored whatever the speed write returned.  *)
WriteFanStoresAlways(fanIdx, newFanSpeed, ret, st) ==
    LET c1 == SetPolicyCall(fanIdx, FAN_POLICY_MANUAL, ret.policy)
        c2 == SetSpeedCall(fanIdx, newFanSpeed, ret.speed)
    IN IF ret.policy # SUCCESS
       THEN [st EXCEPT !.calls = Append(@, c1)]
       ELSE [speeds |-> [st.speeds EXCEPT ![fanIdx] = newFanSpeed],
             calls  |-> st.calls \o <<c1, c2>>,
             any    |-> TRUE]
(* The two writes of one fan, shared by the MANUAL branch and the step     *)
(* mode: st is [speeds, calls, any] so far.                                *)
WriteFan(fanIdx, newFanSpeed, ret, st) ==
    LET c1 == SetPolicyCall(fanIdx, FAN_POLICY_MANUAL, ret.policy)
        c2 == SetSpeedCall(fanIdx, newFanSpeed, ret.speed)
    IN IF ret.policy # SUCCESS
       THEN [st EXCEPT !.calls = Append(@, c1)]
       ELSE IF ret.speed # SUCCESS
       THEN [st EXCEPT !.calls = @ \o <<c1, c2>>]
       ELSE [speeds |-> [st.speeds EXCEPT ![fanIdx] = newFanSpeed],
             calls  |-> st.calls \o <<c1, c2>>,
             any    |-> TRUE]

(* Faulty variant: the first `continue` missing.                           *)
curveHoldHysteresisOnly(newFanSpeed, prevSpeed, tempInt, lastChange, hyst) ==
    abs(tempInt - lastChange) < hyst
(* The two `continue`s at the head of the MANUAL branch's loop body: the   *)
(* fan is left alone.                                                      *)
curveHold(newFanSpeed, prevSpeed, tempInt, lastChange, hyst) ==
    \/ newFanSpeed = prevSpeed
    \/ abs(tempInt - lastChange) < hyst

(* Faulty variant: the reference temperature moves as soon as a fan is     *)
(* written, so the fans after it are compared against the new one.         *)
RECURSIVE ManualLoopMovingReference(_, _, _, _, _, _, _)
ManualLoopMovingReference(fanIdx, n, tempInt, target, lastChange, hw, st) ==
    IF fanIdx > n THEN st
    ELSE LET prevSpeed   == st.speeds[fanIdx]
             newFanSpeed == target[1]
             hyst        == target[2]
             written     == WriteFan(fanIdx, newFanSpeed, hw[fanIdx], st)
         IN IF curveHold(newFanSpeed, prevSpeed, tempInt, lastChange, hyst)
            THEN ManualLoopMovingReference(fanIdx + 1, n, tempInt, target,
                                           lastChange, hw, st)
            ELSE ManualLoopMovingReference(fanIdx + 1, n, tempInt, target,
                     IF written.speeds[fanIdx] = newFanSpeed THEN tempInt ELSE lastChange,
                     hw, written)

(* The MANUAL branch's loop over the fans, from fan fanIdx on.             *)
(* target is curveSpeedForTempWithProfile(tempInt, prof), which the source *)
(* computes anew for every fan, from the same arguments.                   *)
RECURSIVE ManualLoop(_, _, _, _, _, _, _)
ManualLoop(fanIdx, n, tempInt, target, lastChange, hw, st) ==
    IF fanIdx > n THEN st
    ELSE LET prevSpeed   == st.speeds[fanIdx]
             newFanSpeed == target[1]
             hyst        == target[2]
         IN IF curveHold(newFanSpeed, prevSpeed, tempInt, lastChange, hyst)
            THEN ManualLoop(fanIdx + 1, n, tempInt, target, lastChange, hw, st)
            ELSE ManualLoop(fanIdx + 1, n, tempInt, target, lastChange, hw,
                            WriteFan(fanIdx, newFanSpeed, hw[fanIdx], st))

(* Faulty variant: a fan is looked at only when the temperature is not the *)
(* one of the tick before.                                                 *)
RECURSIVE StepLoopOnChange(_, _, _, _, _, _)
StepLoopOnChange(fanIdx, n, tempInt, prevTemp, hw, st) ==
    IF fanIdx > n THEN st
    ELSE LET prevSpeed   == st.speeds[fanIdx]
             newFanSpeed == getFanSpeedForTemperature(tempInt, prevTemp, prevSpeed,
                                                      config.TemperatureRanges)
         IN IF newFanSpeed = prevSpeed \/ tempInt = prevTemp
            THEN StepLoopOnChange(fanIdx + 1, n, tempInt, prevTemp, hw, st)
            ELSE StepLoopOnChange(fanIdx + 1, n, tempInt, prevTemp, hw,
                                  WriteFan(fanIdx, newFanSpeed, hw[fanIdx], st))

(* The step mode's loop over the fans, from fan fanIdx on.                 *)
RECURSIVE StepLoop(_, _, _, _, _, _)
StepLoop(fanIdx, n, tempInt, prevTemp, hw, st) ==
    IF fanIdx > n THEN st
    ELSE LET prevSpeed   == st.speeds[fanIdx]
             newFanSpeed == getFanSpeedForTemperature(tempInt, prevTemp, prevSpeed,
                                                      config.TemperatureRanges)
         IN IF newFanSpeed = prevSpeed
            THEN StepLoop(fanIdx + 1, n, tempInt, prevTemp, hw, st)
            ELSE StepLoop(fanIdx + 1, n, tempInt, prevTemp, hw,
                          WriteFan(fanIdx, newFanSpeed, hw[fanIdx], st))

LoopStart(i) == [speeds |-> prevFanSpeeds[i], calls |-> <<>>, any |-> FALSE]

Iterating == idx \in Devices

(* Faulty variant: a device without fans is read like the others.         *)
DeviceSkippedRead ==
    /\ Iterating
    /\ fanCounts[idx] = 0
    /\ idx' = idx + 1
    /\ \E tempInt \in TickTemps :
          /\ read' = Reading(idx, SUCCESS, SUCCESS, tempInt, tempInt = prevTemps[idx])
          /\ prevTemps' = [prevTemps EXCEPT ![idx] = tempInt]
    /\ calls' = <<>>
    /\ hwPolicy' = Follow(hwPolicy, idx, TRUE, <<>>)
    /\ UNCHANGED <<config, fma, useCurve, prof, fanCounts, prevFanSpeeds,
                   inAuto, lastFanChangeTemp, gamemode, call, result>>

(* if fanCounts[i] == 0 { continue }                                       *)
DeviceSkipped ==
    /\ Iterating
    /\ fanCounts[idx] = 0
    /\ idx' = idx + 1
    /\ read' = Reading(idx, NOT_CALLED, NOT_CALLED, 0, FALSE)
    /\ calls' = <<>>
    /\ hwPolicy' = Follow(hwPolicy, idx, TRUE, <<>>)
    /\ UNCHANGED <<config, fma, useCurve, prof, fanCounts, prevTemps, prevFanSpeeds,
                   inAuto, lastFanChangeTemp, gamemode, call, result>>

(* Faulty variant: a handle that cannot be had ends the pass over the      *)
(* devices.                                                                *)
HandleFailedEndsPass ==
    /\ Iterating
    /\ fanCounts[idx] # 0
    /\ read' = Reading(idx, ERROR_UNKNOWN, NOT_CALLED, 0, FALSE)
    /\ idx' = NumDevices + 1
    /\ calls' = <<>>
    /\ hwPolicy' = Follow(hwPolicy, idx, FALSE, <<>>)
    /\ UNCHANGED <<config, fma, useCurve, prof, fanCounts, prevTemps, prevFanSpeeds,
                   inAuto, lastFanChangeTemp, gamemode, call, result>>

(* DeviceGetHandleByIndex fails: continue                                  *)
HandleFailed ==
    /\ Iterating
    /\ fanCounts[idx] # 0
    /\ read' = Reading(idx, ERROR_UNKNOWN, NOT_CALLED, 0, FALSE)
    /\ idx' = idx + 1
    /\ calls' = <<>>
    /\ hwPolicy' = Follow(hwPolicy, idx, FALSE, <<>>)
    /\ UNCHANGED <<config, fma, useCurve, prof, fanCounts, prevTemps, prevFanSpeeds,
                   inAuto, lastFanChangeTemp, gamemode, call, result>>

(* DeviceGetTemperature fails: continue                                    *)
TemperatureFailed ==
    /\ Iterating
    /\ fanCounts[idx] # 0
    /\ read' = Reading(idx, SUCCESS, ERROR_UNKNOWN, 0, FALSE)
    /\ idx' = idx + 1
    /\ calls' = <<>>
    /\ hwPolicy' = Follow(hwPolicy, idx, FALSE, <<>>)
    /\ UNCHANGED <<config, fma, useCurve, prof, fanCounts, prevTemps, prevFanSpeeds,
                   inAuto, lastFanChangeTemp, gamemode, call, result>>

(* Curve mode, the device is in AUTO after the mode decision.              *)
CurveAuto ==
    /\ Iterating
    /\ fanCounts[idx] # 0
    /\ useCurve
    /\ \E tempInt \in TickTemps, hw \in [1..fanCounts[idx] -> FanReturns] :
           /\ decideInAuto(inAuto[idx], tempInt, prof)
           /\ read' = Reading(idx, SUCCESS, SUCCESS, tempInt, tempInt = prevTemps[idx])
           /\ inAuto' = [inAuto EXCEPT ![idx] = TRUE]
           /\ calls' = AutoLoop(fanCounts[idx], hw)
           /\ lastFanChangeTemp' = [lastFanChangeTemp EXCEPT ![idx] = tempInt]
           /\ prevTemps' = [prevTemps EXCEPT ![idx] = tempInt]
    /\ idx' = idx + 1
    /\ hwPolicy' = Follow(hwPolicy, idx, TRUE, calls')
    /\ UNCHANGED <<config, fma, useCurve, prof, fanCounts, prevFanSpeeds,
                   gamemode, call, result>>

(* Curve mode, the device is in MANUAL after the mode decision.            *)
CurveManual ==
    /\ Iterating
    /\ fanCounts[idx] # 0
    /\ useCurve
    /\ \E tempInt \in TickTemps :
         /\ ~decideInAuto(inAuto[idx], tempInt, prof)
         /\ \E target \in {curveSpeedForTempWithProfile(tempInt, prof)},
               hw \in [1..fanCounts[idx] -> FanReturns] :
              \E st \in {ManualLoop(1, fanCounts[idx], tempInt, target,
                                    lastFanChangeTemp[idx], hw, LoopStart(idx))} :
                 /\ prevFanSpeeds' = [prevFanSpeeds EXCEPT ![idx] = st.speeds]
                 /\ calls' = st.calls
                 /\ lastFanChangeTemp' =
                        IF st.any THEN [lastFanChangeTemp EXCEPT ![idx] = tempInt]
                        ELSE lastFanChangeTemp
         /\ read' = Reading(idx, SUCCESS, SUCCESS, tempInt, tempInt = prevTemps[idx])
         /\ inAuto' = [inAuto EXCEPT ![idx] = FALSE]
         /\ prevTemps' = [prevTemps EXCEPT ![idx] = tempInt]
    /\ idx' = idx + 1
    /\ hwPolicy' = Follow(hwPolicy, idx, TRUE, calls')
    /\ UNCHANGED <<config, fma, useCurve, prof, fanCounts, gamemode, call, result>>

(* The original step mode.                                                 *)
StepMode ==
    /\ Iterating
    /\ fanCounts[idx] # 0
    /\ ~useCurve
    /\ \E tempInt \in TickTemps, hw \in [1..fanCounts[idx] -> FanReturns] :
           /\ read' = Reading(idx, SUCCESS, SUCCESS, tempInt, tempInt = prevTemps[idx])
           /\ \E st \in {StepLoop(1, fanCounts[idx], tempInt, prevTemps[idx],
                                   hw, LoopStart(idx))} :
                 /\ prevFanSpeeds' = [prevFanSpeeds EXCEPT ![idx] = st.speeds]
                 /\ calls' = st.calls
           /\ prevTemps' = [prevTemps EXCEPT ![idx] = tempInt]
    /\ idx' = idx + 1
    /\ hwPolicy' = Follow(hwPolicy, idx, TRUE, calls')
    /\ UNCHANGED <<config, fma, useCurve, prof, fanCounts, inAuto, lastFanChangeTemp,
                   gamemode, call, result>>

(* for range ticker.C: the next tick starts at device 0.                   *)
NextTick ==
    /\ idx = NumDevices + 1
    /\ idx' = 1
    /\ UNCHANGED <<config, fma, useCurve, prof, fanCounts, prevTemps, prevFanSpeeds,
                   inAuto, lastFanChangeTemp, read, calls, gamemode, hwPolicy, call,
                   result>>

(* `nvidia_fan_control gamemode on|off` (README, 'Game Mode'), run beside  *)
(* the daemon.  main has no such case: it prints the usage and exits with  *)
(* code 2, and nothing reaches the daemon.  gamemode keeps what was asked. *)
GamemodeCommand ==
    /\ \E arg \in {"on", "off"} : gamemode' = arg
    /\ UNCHANGED <<config, fma, useCurve, prof, fanCounts, prevTemps, prevFanSpeeds,
                   inAuto, lastFanChangeTemp, idx, read, calls, hwPolicy, call, result>>

Init == DaemonInit /\ HarnessIdle /\ hwPolicy = PoliciesNotFollowed

Next ==
    \/ DeviceSkipped
    \/ HandleFailed
    \/ TemperatureFailed
    \/ CurveAuto
    \/ CurveManual
    \/ StepMode
    \/ NextTick

Spec == Init /\ [][Next]_vars

(* The daemon with `gamemode on|off` run beside it.                        *)
NextGamemode == Next \/ GamemodeCommand

SpecGamemode == Init /\ [][NextGamemode]_vars

(* The daemon with the policies of the fans followed.                      *)
InitHardware == DaemonInit /\ HarnessIdle /\ hwPolicy = PoliciesAtStart(fanCounts)

SpecHardware == InitHardware /\ [][Next]_vars

(* The daemon in step mode over ticks that all read one temperature,       *)
(* call.temp, for every device with fans.  The ticker goes on firing (for  *)
(* range ticker.C), and the speed write of one fan, call.fan of device     *)
(* call.dev, succeeds again and again as long as it is attempted again and *)
(* again; the writes of the other fans may fail for ever.                  *)
SteadyInit ==
    /\ DaemonInit
    /\ ~useCurve /\ config.TemperatureRanges # <<>>
    /\ hwPolicy = PoliciesNotFollowed
    /\ \E t \in TickTemps, d \in Devices, f \in 1..MaxFans :
          /\ f <= fanCounts[d]
          /\ call = [fn |-> "steady", temp |-> t, dev |-> d, fan |-> f]
    /\ result = <<>>

SteadyTick == StepMode /\ read'.temp = call.temp

NextSteady ==
    \/ DeviceSkipped
    \/ SteadyTick
    \/ NextTick

(* The iteration at device call.dev writes the speed of its fan call.fan    *)
(* with success.                                                           *)
FanWritten ==
    /\ SteadyTick
    /\ idx = call.dev
    /\ \E k \in DOMAIN calls' :
          /\ calls'[k].fn = "DeviceSetFanSpeed_v2"
          /\ calls'[k].fan = call.fan
          /\ calls'[k].ret = SUCCESS

SpecSteady ==
    /\ SteadyInit
    /\ [][NextSteady]_vars
    /\ WF_vars(NextSteady)
    /\ SF_vars(FanWritten)

-----------------------------------------------------------------------------
(* The pure functions on their own: the inputs are drawn in the initial    *)
(* state, an action applies the function.                                  *)

MaxRanges == 3
MaxStepRanges == 2

(* Ranges to build configurations from: two that start at 0, two that      *)
(* start at 4, an inverted one, speeds outside 0..100.                     *)
RangeUniverse ==
    { TemperatureRange(0, 4, 10, 2),
      TemperatureRange(0, 6, 120, 0),
      TemperatureRange(4, 8, 0, 1),
      TemperatureRange(4, 6, 30, 3),
      TemperatureRange(14, 20, 45, 0),
      TemperatureRange(6, 2, 0 - 5, 2),
      TemperatureRange(2, 12, 25, 1) }

RangeLists(n) == UNION { [1..k -> RangeUniverse] : k \in 0..n }

CurveTemps == {3, 4, 5, 9, 11, 14, 39, 50, 150}
StepTemps == {3, 4, 5, 9, 11, 14}
StepPrevTemps == {3, 5, 9}
StepPrevSpeeds == {0, 10, 30, 45}

(* The daemon does not run.                                                *)
DaemonOff ==
    /\ config = [TemperatureRanges |-> <<>>, Curve |-> FALSE]
    /\ useCurve = FALSE
    /\ prof = ZeroProfile
    /\ fanCounts = [d \in Devices |-> 0]
    /\ prevTemps = [d \in Devices |-> 0]
    /\ prevFanSpeeds = [d \in Devices |-> <<>>]
    /\ inAuto = [d \in Devices |-> FALSE]
    /\ lastFanChangeTemp = [d \in Devices |-> 0]
    /\ idx = NumDevices + 1
    /\ read = Reading(0, NOT_CALLED, NOT_CALLED, 0, FALSE)
    /\ calls = <<>>
    /\ gamemode = "off"
    /\ hwPolicy = PoliciesNotFollowed

daemonVars == <<config, fma, useCurve, prof, fanCounts, prevTemps, prevFanSpeeds,
                inAuto, lastFanChangeTemp, idx, read, calls, gamemode, hwPolicy>>

StepPolicyInit ==
    /\ DaemonOff
    /\ fma = FALSE
    /\ call \in [fn : {"getFanSpeedForTemperature"}, temp : StepTemps,
                 prevTemp : StepPrevTemps, prevSpeed : StepPrevSpeeds,
                 ranges : RangeLists(MaxStepRanges)]
    /\ result = <<>>

ApplyStepPolicy ==
    /\ call.fn = "getFanSpeedForTemperature"
    /\ result = <<>>
    /\ result' = << getFanSpeedForTemperature(call.temp, call.prevTemp,
                                              call.prevSpeed, call.ranges) >>
    /\ UNCHANGED <<daemonVars, call>>

SpecStepPolicy == StepPolicyInit /\ [][ApplyStepPolicy]_vars

CurveInit ==
    /\ DaemonOff
    /\ fma \in BOOLEAN
    /\ call \in [fn : {"buildCurveProfileFromRanges"},
                 ranges : RangeLists(MaxRanges) \cup {ReadmeRanges},
                 temp : {0}, prof : {ZeroProfile}]
    /\ result = <<>>

BuildProfile ==
    /\ call.fn = "buildCurveProfileFromRanges"
    /\ result = <<>>
    /\ result' = << buildCurveProfileFromRanges(call.ranges) >>
    /\ call' = [call EXCEPT !.ranges = rangesAfterBuild(call.ranges)]
    /\ UNCHANGED daemonVars

(* speedAt on the profile built, as runMonitoringLoop does when the        *)
(* builder returned no error.                                              *)
SpeedAt ==
    /\ call.fn = "buildCurveProfileFromRanges"
    /\ result # <<>>
    /\ ~result[1].err
    /\ \E temp \in CurveTemps :
         /\ call' = [call EXCEPT !.fn = "curveSpeedForTempWithProfile",
                                 !.temp = temp, !.prof = result[1].prof]
         /\ \E r \in {curveSpeedForTempWithProfile(temp, result[1].prof)} :
                result' = << [speed |-> r[1], hyst |-> r[2]] >>
    /\ UNCHANGED daemonVars

NextCurve == BuildProfile \/ SpeedAt

SpecCurve == CurveInit /\ [][NextCurve]_vars

-----------------------------------------------------------------------------
(* The mode decision on its own, over ticks that all read one temperature: *)
(* result is the list of the modes after each tick.                        *)

MaxHyst == 3
MaxTicks == 3
FloorEnds == {4, 40}

DeadbandInit ==
    /\ DaemonOff
    /\ fma = FALSE
    /\ \E e \in FloorEnds, h \in 0..MaxHyst, d \in (0 - MaxHyst)..MaxHyst, a \in BOOLEAN :
          call = [fn |-> "decideInAuto", auto |-> a, temp |-> e + d,
                  prof |-> [ZeroProfile EXCEPT !.floorEndTemp = e, !.floorHyst = h]]
    /\ result = <<>>

SameTemperatureTick ==
    /\ call.fn = "decideInAuto"
    /\ Len(result) < MaxTicks
    /\ result' = Append(result,
                        decideInAuto(IF result = <<>> THEN call.auto
                                     ELSE result[Len(result)],
                                     call.temp, call.prof))
    /\ UNCHANGED <<daemonVars, call>>

SpecDeadband == DeadbandInit /\ [][SameTemperatureTick]_vars

-----------------------------------------------------------------------------
(* The commands `set` and `auto`: main's cases, parseFanList, cmdSet and   *)
(* cmdAuto.  A string is a sequence of characters.                         *)

(* unicode.IsSpace, the characters strings.TrimSpace trims: space, \t, \n, *)
(* \f, \r, then \v, U+0085, U+00A0 and U+1680, and the ones a string of    *)
(* this language cannot hold, each written as its code point.              *)
SpaceChars ==
    {" ", "\t", "\n", "\f", "\r", "", "", " ", " ",
     "U+2000", "U+2001", "U+2002", "U+2003", "U+2004", "U+2005",
     "U+2006", "U+2007", "U+2008", "U+2009", "U+200A", "U+2028",
     "U+2029", "U+202F", "U+205F", "U+3000"}

Digits == <<"0", "1", "2", "3", "4", "5", "6", "7", "8", "9">>

IsDigit(c) == \E d \in DOMAIN Digits : Digits[d] = c

DigitValue(c) == (CHOOSE d \in DOMAIN Digits : Digits[d] = c) - 1

(* strings.TrimSpace                                                       *)
RECURSIVE TrimLeft(_)
TrimLeft(s) ==
    IF s # <<>> /\ Head(s) \in SpaceChars THEN TrimLeft(Tail(s)) ELSE s

RECURSIVE TrimRight(_)
TrimRight(s) ==
    IF s # <<>> /\ s[Len(s)] \in SpaceChars
    THEN TrimRight(SubSeq(s, 1, Len(s) - 1))
    ELSE s

TrimSpace(s) == TrimRight(TrimLeft(s))

(* strings.Split(s, sep) for a separator of one character                  *)
RECURSIVE Split(_, _)
Split(s, sep) ==
    LET at == { k \in DOMAIN s : s[k] = sep } IN
    IF at = {} THEN <<s>>
    ELSE LET k == CHOOSE i \in at : \A j \in at : i <= j
         IN <<SubSeq(s, 1, k - 1)>> \o Split(SubSeq(s, k + 1, Len(s)), sep)

RECURSIVE DecimalValue(_)
DecimalValue(ds) ==
    IF ds = <<>> THEN 0
    ELSE DecimalValue(SubSeq(ds, 1, Len(ds) - 1)) * 10 + DigitValue(ds[Len(ds)])

(* The digits of the largest int, 1<<63 - 1, and of the magnitude of the   *)
(* smallest, 1<<63 (strconv.IntSize is 64).                                *)
MaxIntDigits ==
    <<"9", "2", "2", "3", "3", "7", "2", "0", "3", "6",
      "8", "5", "4", "7", "7", "5", "8", "0", "7">>
MinIntDigits ==
    <<"9", "2", "2", "3", "3", "7", "2", "0", "3", "6",
      "8", "5", "4", "7", "7", "5", "8", "0", "8">>

RECURSIVE DropZeros(_)
DropZeros(ds) ==
    IF ds # <<>> /\ Head(ds) = "0" THEN DropZeros(Tail(ds)) ELSE ds

(* The number the digits ds write is above the one the digits lim write.   *)
DigitsAbove(ds, lim) ==
    LET sig == DropZeros(ds) IN
    \/ Len(sig) > Len(lim)
    \/ /\ Len(sig) = Len(lim)
       /\ \E k \in DOMAIN lim :
             /\ DigitValue(sig[k]) > DigitValue(lim[k])
             /\ \A j \in 1..(k - 1) : sig[j] = lim[j]

(* strconv.Atoi: an optional sign, then decimal digits, at least one; a    *)
(* number that no int holds is an error (value out of range).              *)
Atoi(p) ==
    LET signed == p # <<>> /\ Head(p) \in {"+", "-"}
        neg    == signed /\ Head(p) = "-"
        ds     == IF signed THEN Tail(p) ELSE p
    IN IF ds = <<>> \/ \E k \in DOMAIN ds : ~IsDigit(ds[k])
       THEN [n |-> 0, err |-> TRUE]
       ELSE IF DigitsAbove(ds, IF neg THEN MinIntDigits ELSE MaxIntDigits)
       THEN [n |-> 0, err |-> TRUE]
       ELSE [n |-> IF neg THEN 0 - DecimalValue(ds) ELSE DecimalValue(ds),
             err |-> FALSE]

(* The loop of parseFanList over the parts, out the indices so far.        *)
RECURSIVE parseFanParts(_, _)
parseFanParts(parts, out) ==
    IF parts = <<>>
    THEN IF out = <<>> THEN [fans |-> <<>>, err |-> TRUE]
         ELSE [fans |-> out, err |-> FALSE]
    ELSE LET p == TrimSpace(Head(parts)) IN
         IF p = <<>> THEN parseFanParts(Tail(parts), out)
         ELSE LET a == Atoi(p) IN
              IF a.err \/ a.n < 0 THEN [fans |-> <<>>, err |-> TRUE]
              ELSE parseFanParts(Tail(parts), Append(out, a.n))

(* Returns [fans, err].                                                    *)
parseFanList(str) ==
    LET s == TrimSpace(str) IN
    IF s = <<>> THEN [fans |-> <<>>, err |-> TRUE]
    ELSE parseFanParts(Split(s, ","), <<>>)

(* A hardware call that addresses no fan.                                  *)
HwCall(fn, ret) ==
    [fn |-> fn, fan |-> 0 - 1, policy |-> "", speed |-> 0, ret |-> ret]

(* What a command did: its exit code and the hardware calls it made.       *)
Exit(code, cs) == [exit |-> code, calls |-> cs]

(* defer cleanup(): nvml.Shutdown once nvml.Init has succeeded.            *)
Deferred(cs, hw) ==
    IF hw.init = SUCCESS THEN Append(cs, HwCall("nvml.Shutdown", hw.shutdown)) ELSE cs

(* The head that cmdSet and cmdAuto share: NVML, the device count, the     *)
(* handle, the number of fans and the check of the fan indices (which are  *)
(* 0-based).  Returns [err, calls].                                        *)
openDevice(gpuIdx, fans, hw) ==
    LET c1 == HwCall("nvml.Init", hw.init)
        c2 == HwCall("nvml.DeviceGetCount", hw.count.ret)
        c3 == HwCall("nvml.DeviceGetHandleByIndex", hw.handle)
        c4 == HwCall("nvml.DeviceGetNumFans", hw.numFans.ret)
    IN IF hw.init # SUCCESS THEN [err |-> TRUE, calls |-> <<c1>>]
       ELSE IF hw.count.ret # SUCCESS THEN [err |-> TRUE, calls |-> <<c1, c2>>]
       ELSE IF gpuIdx < 0 \/ gpuIdx >= hw.count.n THEN [err |-> TRUE, calls |-> <<c1, c2>>]
       ELSE IF hw.handle # SUCCESS THEN [err |-> TRUE, calls |-> <<c1, c2, c3>>]
       ELSE IF hw.numFans.ret # SUCCESS THEN [err |-> TRUE, calls |-> <<c1, c2, c3, c4>>]
       ELSE IF \E k \in DOMAIN fans : fans[k] < 0 \/ fans[k] >= hw.numFans.n
       THEN [err |-> TRUE, calls |-> <<c1, c2, c3, c4>>]
       ELSE [err |-> FALSE, calls |-> <<c1, c2, c3, c4>>]

(* cmdSet's loop over the fans from the k-th on: the first failing call    *)
(* returns 1.                                                              *)
RECURSIVE setFans(_, _, _, _, _)
setFans(k, fans, speed, hw, cs) ==
    IF k > Len(fans) THEN Exit(0, cs)
    ELSE LET c1 == SetPolicyCall(fans[k], FAN_POLICY_MANUAL, hw.fan[k].policy)
             c2 == SetSpeedCall(fans[k], speed, hw.fan[k].speed)
         IN IF hw.fan[k].policy # SUCCESS THEN Exit(1, Append(cs, c1))
            ELSE IF hw.fan[k].speed # SUCCESS THEN Exit(1, cs \o <<c1, c2>>)
            ELSE setFans(k + 1, fans, speed, hw, cs \o <<c1, c2>>)

(* cmdAuto's loop over the fans from the k-th on.                          *)
RECURSIVE autoFans(_, _, _, _)
autoFans(k, fans, hw, cs) ==
    IF k > Len(fans) THEN Exit(0, cs)
    ELSE LET c1 == SetPolicyCall(fans[k], FAN_POLICY_TEMPERATURE_CONTINOUS_SW,
                                 hw.fan[k].policy)
         IN IF hw.fan[k].policy # SUCCESS THEN Exit(1, Append(cs, c1))
            ELSE autoFans(k + 1, fans, hw, Append(cs, c1))

(* Faulty variant: the speed is checked once the device is open.           *)
cmdSetChecksLate(gpuIdx, fans, speed, hw) ==
    LET o == openDevice(gpuIdx, fans, hw) IN
    IF o.err \/ speed < 0 \/ speed > 100 THEN Exit(1, Deferred(o.calls, hw))
    ELSE LET w == setFans(1, fans, speed, hw, o.calls)
         IN Exit(w.exit, Deferred(w.calls, hw))

cmdSet(gpuIdx, fans, speed, hw) ==
    IF speed < 0 \/ speed > 100 THEN Exit(1, <<>>)
    ELSE LET o == openDevice(gpuIdx, fans, hw) IN
         IF o.err THEN Exit(1, Deferred(o.calls, hw))
         ELSE LET w == setFans(1, fans, speed, hw, o.calls)
              IN Exit(w.exit, Deferred(w.calls, hw))

cmdAuto(gpuIdx, fans, hw) ==
    LET o == openDevice(gpuIdx, fans, hw) IN
    IF o.err THEN Exit(1, Deferred(o.calls, hw))
    ELSE LET w == autoFans(1, fans, hw, o.calls)
         IN Exit(w.exit, Deferred(w.calls, hw))

(* What fs.Parse makes of `-speed`: the flag is absent (the default, -1,   *)
(* stays), or its value is an integer, or it is not one.                   *)
SpeedFlag(kind, value) == [kind |-> kind, value |-> value]

(* main, case "set".                                                       *)
mainSet(gpuIdx, speedFlag, fansStr, hw) ==
    IF speedFlag.kind = "invalid" THEN Exit(2, <<>>)
    ELSE LET speed == IF speedFlag.kind = "absent" THEN 0 - 1 ELSE speedFlag.value IN
         IF speed < 0 THEN Exit(2, <<>>)
         ELSE LET p == parseFanList(fansStr) IN
              IF p.err THEN Exit(2, <<>>)
              ELSE cmdSet(gpuIdx, p.fans, speed, hw)

(* main, case "auto": its flag set has no -speed, so fs.Parse fails when   *)
(* one is given.                                                           *)
mainAuto(gpuIdx, speedFlag, fansStr, hw) ==
    IF speedFlag.kind # "absent" THEN Exit(2, <<>>)
    ELSE LET p == parseFanList(fansStr) IN
         IF p.err THEN Exit(2, <<>>)
         ELSE cmdAuto(gpuIdx, p.fans, hw)

(* The command lines tried.                                                *)
SpeedValues == {0 - 5, 0, 100, 101}
SpeedFlags ==
    {SpeedFlag("absent", 0), SpeedFlag("invalid", 0)}
        \cup {SpeedFlag("int", v) : v \in SpeedValues}

FanArgs ==
    { <<"0">>, <<>>, <<" ">>, <<"0", ",", "1">>, <<" ", "1", " ", ",", "0", " ">>,
      <<"x">>, <<"-", "1">>, <<",">>, <<"0", ",", ",", "1">>, <<"1", ",", "x">>,
      <<"\t", "0">>, <<"0", ",", "\t", "1", "\n">>, <<"0", "\t", "1">>,
      <<"+", "0", "1">>, MinIntDigits, <<"-", "1">> \o MinIntDigits,
      <<"0", "0">> \o MinIntDigits, <<"0", ",">> \o MinIntDigits }

(* The longest list of fans a command line tried gives.                    *)
LongestFanList ==
    CHOOSE n \in 0..Len(Digits) :
        /\ \E s \in FanArgs : Len(parseFanList(s).fans) = n
        /\ \A s \in FanArgs : Len(parseFanList(s).fans) <= n

(* What the hardware returns to the calls of one command.                  *)
CountReturns ==
    {[ret |-> ERROR_UNKNOWN, n |-> 0]} \cup {[ret |-> SUCCESS, n |-> n] : n \in 1..NumDevices}
NumFansReturns ==
    {[ret |-> ERROR_UNKNOWN, n |-> 0]} \cup {[ret |-> SUCCESS, n |-> n] : n \in 1..MaxFans}
CliHardware ==
    [init : {SUCCESS, ERROR_UNKNOWN}, count : CountReturns,
     handle : {SUCCESS, ERROR_UNKNOWN}, numFans : NumFansReturns,
     fan : [1..LongestFanList -> FanReturns],
     shutdown : {SUCCESS, ERROR_UNKNOWN}]

CliInit ==
    /\ DaemonOff
    /\ fma = FALSE
    /\ call \in [fn : {"main"}, cmd : {"set", "auto"}, gpu : {0, NumDevices},
                 speed : SpeedFlags, fans : FanArgs]
    /\ result = <<>>

SetCommand ==
    /\ call.fn = "main" /\ call.cmd = "set"
    /\ result = <<>>
    /\ \E hw \in CliHardware :
           result' = << mainSet(call.gpu, call.speed, call.fans, hw) >>
    /\ UNCHANGED <<daemonVars, call>>

AutoCommand ==
    /\ call.fn = "main" /\ call.cmd = "auto"
    /\ result = <<>>
    /\ \E hw \in CliHardware :
           result' = << mainAuto(call.gpu, call.speed, call.fans, hw) >>
    /\ UNCHANGED <<daemonVars, call>>

NextCli == SetCommand \/ AutoCommand

SpecCli == CliInit /\ [][NextCli]_vars

-----------------------------------------------------------------------------
(* Properties of the daemon.                                               *)

(* The loop iteration at device idx read a temperature.                    *)
TickRead == Iterating /\ read'.dev = idx /\ read'.tempRet = SUCCESS

FanIds(d) == 1..fanCounts[d]

PolicyCalls(cs, policy) ==
    { k \in 1..Len(cs) : cs[k].fn = "DeviceSetFanControlPolicy" /\ cs[k].policy = policy }
SpeedCalls(cs) == { k \in 1..Len(cs) : cs[k].fn = "DeviceSetFanSpeed_v2" }

(* C1: in curve mode, on a tick with a successful temperature read, AUTO   *)
(* becomes MANUAL exactly when temp >= floorEndTemp + floorHyst, MANUAL    *)
(* becomes AUTO exactly when temp <= floorEndTemp - floorHyst, the mode is *)
(* unchanged otherwise; with floorEndTemp = 40 and floorHyst = 3, AUTO     *)
(* stays AUTO at 42 and becomes MANUAL at 43, MANUAL stays MANUAL at 38    *)
(* and becomes AUTO at 37.                                                 *)
C1_ModeTransitions ==
    [][ (TickRead /\ useCurve) =>
          LET temp    == read'.temp
              wasAuto == inAuto[idx]
              isAuto  == inAuto'[idx]
          IN /\ wasAuto => (~isAuto <=> temp >= prof.floorEndTemp + prof.floorHyst)
             /\ ~wasAuto => (isAuto <=> temp <= prof.floorEndTemp - prof.floorHyst)
             /\ \A d \in Devices \ {idx} : inAuto'[d] = inAuto[d]
             /\ (prof.floorEndTemp = 40 /\ prof.floorHyst = 3) =>
                   /\ (wasAuto /\ temp = 42) => isAuto
                   /\ (wasAuto /\ temp = 43) => ~isAuto
                   /\ (~wasAuto /\ temp = 38) => ~isAuto
                   /\ (~wasAuto /\ temp = 37) => isAuto ]_vars

(* A device is in MANUAL after reading 43 although no speed was ever       *)
(* written and the reference temperature is the 42 of an AUTO tick: it     *)
(* went from AUTO to MANUAL at 43.                                         *)
C1_Witness ==
    /\ useCurve /\ prof.floorEndTemp = 40 /\ prof.floorHyst = 3
    /\ read.dev = 1 /\ read.tempRet = SUCCESS /\ read.temp = 43
    /\ ~inAuto[1]
    /\ lastFanChangeTemp[1] = 42
    /\ prevFanSpeeds[1][1] = 0

(* C2: while `gamemode on` is the last game-mode command, no tick moves a  *)
(* device from MANUAL to AUTO.                                             *)
C2_GameModeLatch ==
    [][ (gamemode = "on" /\ TickRead /\ useCurve /\ ~inAuto[idx]) => ~inAuto'[idx] ]_vars

(* The range contains temp, as the specification words it.                *)
InBand(temp, r) == r.MinTemperature < temp /\ temp <= r.MaxTemperature

(* Index of the first range of the list that contains temp, 0 if none.     *)
FirstInBand(temp, ranges) ==
    LET in == { k \in 1..Len(ranges) : InBand(temp, ranges[k]) }
    IN IF in = {} THEN 0 ELSE CHOOSE k \in in : \A j \in in : k <= j

(* The calls of a loop iteration that address fan f, in order.             *)
CallsOfFan(cs, f) == SelectSeq(cs, LAMBDA c : c.fan = f)

(* The tick at device idx reads what the last one read, and the device     *)
(* already is where the policy wants it: same mode, and in MANUAL and in   *)
(* step mode every lastKnownSpeed is the policy's speed.                   *)
Settled ==
    /\ TickRead
    /\ read'.repeat
    /\ IF useCurve
       THEN /\ inAuto'[idx] = inAuto[idx]
            /\ \/ inAuto'[idx]
               \/ \E sp \in {curveSpeedForTempWithProfile(read'.temp, prof)} :
                     \A f \in FanIds(idx) : prevFanSpeeds[idx][f] = sp[1]
       ELSE \A f \in FanIds(idx) :
               LET k == FirstInBand(read'.temp, config.TemperatureRanges)
               IN k # 0 => prevFanSpeeds[idx][f] = config.TemperatureRanges[k].FanSpeed

(* C3, as claimed: in every policy, a settled device gets no setFanPolicy  *)
(* and no setFanSpeed call on a tick that repeats the temperature.         *)
C3_Idempotence ==
    [][ Settled => calls' = <<>> ]_vars

(* C3, amended: a settled device keeps every lastKnownSpeed; in step mode  *)
(* and in curve MANUAL no call is issued; in curve AUTO the calls issued   *)
(* are setFanPolicy(AUTO) calls only, never setFanSpeed.                   *)
C3_IdempotenceOutsideAuto ==
    [][ Settled =>
          /\ prevFanSpeeds' = prevFanSpeeds
          /\ IF useCurve /\ inAuto'[idx]
             THEN /\ SpeedCalls(calls') = {}
                  /\ PolicyCalls(calls', FAN_POLICY_TEMPERATURE_CONTINOUS_SW) = DOMAIN calls'
             ELSE calls' = <<>> ]_vars

(* A MANUAL device read 42 again while its fan holds the 43 of the curve   *)
(* at 42: nothing was written.                                             *)
C3_Witness ==
    /\ useCurve /\ read.dev = 1 /\ read.tempRet = SUCCESS
    /\ read.repeat /\ read.temp = 42
    /\ ~inAuto[1]
    /\ \A f \in FanIds(1) : prevFanSpeeds[1][f] = 43
    /\ calls = <<>>

(* C4: a tick of a device in MANUAL, fan by fan, with (target, hyst) the   *)
(* curve's answer for the temperature read: no call and the same           *)
(* lastKnownSpeed if target is lastKnownSpeed or the temperature is within *)
(* hyst of lastChangeTemp; otherwise setFanPolicy(MANUAL) first, then      *)
(* setFanSpeed(target) only if the policy call succeeded, and              *)
(* lastKnownSpeed becomes target only if the speed write succeeded.        *)
C4_ManualTick ==
    [][ (TickRead /\ useCurve /\ ~inAuto'[idx]) =>
          \A sp \in {curveSpeedForTempWithProfile(read'.temp, prof)} :
          \A f \in FanIds(idx) :
          \A cs \in {CallsOfFan(calls', f)} :
             LET temp   == read'.temp
                 target == sp[1]
                 hyst   == sp[2]
                 last   == prevFanSpeeds[idx][f]
                 now    == prevFanSpeeds'[idx][f]
             IN IF target = last \/ abs(temp - lastFanChangeTemp[idx]) < hyst
                THEN cs = <<>> /\ now = last
                ELSE /\ Len(cs) \in {1, 2}
                     /\ cs[1].fn = "DeviceSetFanControlPolicy"
                     /\ cs[1].policy = FAN_POLICY_MANUAL
                     /\ Len(cs) = 2 <=> cs[1].ret = SUCCESS
                     /\ Len(cs) = 2 =>
                           cs[2].fn = "DeviceSetFanSpeed_v2" /\ cs[2].speed = target
                     /\ now = IF Len(cs) = 2 /\ cs[2].ret = SUCCESS THEN target ELSE last
        ]_vars

(* A MANUAL device with two fans read 43: the first fan's policy call      *)
(* succeeded and its speed write failed, the second fan got both and       *)
(* holds the curve's 45.                                                   *)
C4_Witness ==
    /\ useCurve /\ read.dev = 1 /\ read.tempRet = SUCCESS /\ read.temp = 43
    /\ ~inAuto[1] /\ fanCounts[1] = 2
    /\ Len(calls) = 4
    /\ calls[1].fn = "DeviceSetFanControlPolicy" /\ calls[1].ret = SUCCESS
    /\ calls[2].fn = "DeviceSetFanSpeed_v2" /\ calls[2].ret = ERROR_UNKNOWN
    /\ calls[4].fn = "DeviceSetFanSpeed_v2" /\ calls[4].ret = SUCCESS
    /\ prevFanSpeeds[1][1] # 45 /\ prevFanSpeeds[1][2] = 45
    /\ lastFanChangeTemp[1] = 43

(* C5: a tick of a device that is in AUTO after the mode decision issues   *)
(* setFanPolicy(AUTO) for every fan, whatever the calls return, and no     *)
(* setFanSpeed; every lastKnownSpeed is unchanged and lastChangeTemp is    *)
(* the temperature read.                                                   *)
C5_AutoTick ==
    [][ (TickRead /\ useCurve /\ inAuto'[idx]) =>
          /\ Len(calls') = fanCounts[idx]
          /\ \A f \in FanIds(idx) :
                /\ calls'[f].fn = "DeviceSetFanControlPolicy"
                /\ calls'[f].fan = f
                /\ calls'[f].policy = FAN_POLICY_TEMPERATURE_CONTINOUS_SW
          /\ SpeedCalls(calls') = {}
          /\ prevFanSpeeds' = prevFanSpeeds
          /\ lastFanChangeTemp'[idx] = read'.temp ]_vars

(* A device with two fans is in AUTO after reading 38; the policy call     *)
(* failed for the first fan and was still made for the second.             *)
C5_Witness ==
    /\ useCurve /\ read.dev = 1 /\ read.tempRet = SUCCESS /\ read.temp = 38
    /\ inAuto[1] /\ fanCounts[1] = 2
    /\ Len(calls) = 2
    /\ calls[1].ret = ERROR_UNKNOWN
    /\ calls[2].policy = FAN_POLICY_TEMPERATURE_CONTINOUS_SW /\ calls[2].ret = SUCCESS
    /\ lastFanChangeTemp[1] = 38

(* The daemon has not run a loop iteration yet.                            *)
AtStartup == read.dev = 0

(* C6: at startup in curve mode a device is in AUTO iff its initial        *)
(* temperature (what the hardware returned, 0 if the read failed) is below *)
(* floorEndTemp, in MANUAL otherwise, and its lastChangeTemp is that       *)
(* temperature.                                                            *)
C6_InitialMode ==
    (AtStartup /\ useCurve) =>
        \A d \in Devices :
            /\ prevTemps[d] \in InitTemps \cup {0}
            /\ inAuto[d] <=> prevTemps[d] < prof.floorEndTemp
            /\ lastFanChangeTemp[d] = prevTemps[d]

(* Startup with the first device at floorEndTemp, in MANUAL, and the       *)
(* second at 0, in AUTO.                                                   *)
C6_Witness ==
    /\ AtStartup /\ useCurve /\ prof.floorEndTemp = 40
    /\ fanCounts[1] > 0 /\ prevTemps[1] = 40 /\ ~inAuto[1] /\ lastFanChangeTemp[1] = 40
    /\ fanCounts[2] > 0 /\ prevTemps[2] = 0 /\ inAuto[2]

(* C8: a step-mode tick at a temperature that no range of the              *)
(* configuration contains (an empty list, overlapping or inverted ranges   *)
(* included) issues no hardware call and leaves every lastKnownSpeed as it *)
(* is: the step policy returned prevSpeed.                                 *)
C8_StepOutsideAllBands ==
    [][ (TickRead /\ ~useCurve /\ FirstInBand(read'.temp, config.TemperatureRanges) = 0) =>
          /\ calls' = <<>>
          /\ prevFanSpeeds' = prevFanSpeeds
          /\ \A f \in FanIds(idx) :
                getFanSpeedForTemperature(read'.temp, prevTemps[idx], prevFanSpeeds[idx][f],
                                          config.TemperatureRanges) = prevFanSpeeds[idx][f]
        ]_vars

(* Step mode with the ranges that end at 42: a device read 43 after 42,    *)
(* its fan keeps the 40 of the range it left.                              *)
C8_Witness ==
    /\ ~useCurve /\ config.TemperatureRanges = RaggedRanges
    /\ read.dev = 1 /\ read.tempRet = SUCCESS /\ read.temp = 43
    /\ prevFanSpeeds[1][1] = 40
    /\ calls = <<>>

-----------------------------------------------------------------------------
(* Properties of the step policy on its own.                               *)

StepPolicyReturned == call.fn = "getFanSpeedForTemperature" /\ result # <<>>

(* C7: the first range of the list, in the order given, with               *)
(* MinTemperature < temp <= MaxTemperature decides: the result is its      *)
(* FanSpeed if abs(temp - prevTemp) >= its Hysteresis or prevSpeed is not  *)
(* its FanSpeed, and prevSpeed otherwise; without such a range the result  *)
(* is prevSpeed.                                                           *)
C7_StepMatchRule ==
    StepPolicyReturned =>
        LET k == FirstInBand(call.temp, call.ranges)
        IN IF k = 0 THEN result[1] = call.prevSpeed
           ELSE LET r == call.ranges[k]
                IN result[1] = IF \/ abs(call.temp - call.prevTemp) >= r.Hysteresis
                                  \/ call.prevSpeed # r.FanSpeed
                               THEN r.FanSpeed
                               ELSE call.prevSpeed

(* temp = 4 with the ranges (4, 8] and (0, 4] in this order: the first     *)
(* does not contain its own MinTemperature, the second decides; prevTemp   *)
(* is within its hysteresis and prevSpeed already is its speed.            *)
C7_Witness ==
    /\ StepPolicyReturned
    /\ call.temp = 4 /\ call.prevTemp = 3 /\ call.prevSpeed = 10
    /\ call.ranges = << TemperatureRange(4, 8, 0, 1), TemperatureRange(0, 4, 10, 2) >>
    /\ result = <<10>>

(* Two ranges contain temp = 5, the first one decides.                     *)
C7_WitnessFirstOfTwo ==
    /\ StepPolicyReturned
    /\ call.temp = 5 /\ call.prevSpeed = 0
    /\ call.ranges = << TemperatureRange(4, 6, 30, 3), TemperatureRange(2, 12, 25, 1) >>
    /\ result = <<30>>

-----------------------------------------------------------------------------
(* Properties of the curve speed lookup on its own.                        *)

SpeedAtReturned == call.fn = "curveSpeedForTempWithProfile"

(* The floor applies: temp is below floorEndTemp, or there is no setpoint, *)
(* or temp is below the first setpoint.                                    *)
FloorApplies(temp, p) ==
    \/ temp < p.floorEndTemp
    \/ p.points = <<>>
    \/ temp < p.points[1].temp

(* C9: the lookup returns (floorSpeed, floorHyst) when temp is below       *)
(* floorEndTemp, when there is no setpoint and when temp is below the      *)
(* first setpoint; otherwise it returns the last setpoint's speed and      *)
(* hysteresis when temp is at or above the last setpoint.  With the README *)
(* configuration the speed at 39 is 30 and the speed at 150 is 100.        *)
C9_CurveClamps ==
    SpeedAtReturned =>
        LET temp == call.temp
            p    == call.prof
            last == p.points[Len(p.points)]
        IN /\ FloorApplies(temp, p) =>
                 result[1] = [speed |-> p.floorSpeed, hyst |-> p.floorHyst]
           /\ (~FloorApplies(temp, p) /\ temp >= last.temp) =>
                 result[1] = [speed |-> last.speed, hyst |-> last.hyst]
           /\ (call.ranges = ReadmeRanges /\ temp = 39) => result[1].speed = 30
           /\ (call.ranges = ReadmeRanges /\ temp = 150) => result[1].speed = 100

(* temp = 3 is below floorEndTemp = 4 and above the only setpoint, at 2:   *)
(* the floor wins.                                                         *)
C9_Witness ==
    /\ SpeedAtReturned
    /\ call.ranges = << TemperatureRange(0, 4, 10, 2), TemperatureRange(2, 12, 25, 1) >>
    /\ call.prof.floorEndTemp = 4 /\ call.prof.points = << curvePoint(2, 25, 1) >>
    /\ call.temp = 3
    /\ result = << [speed |-> 10, hyst |-> 2] >>

(* The README configuration at 150: the last setpoint's speed.             *)
C9_WitnessCeiling ==
    /\ SpeedAtReturned /\ call.ranges = ReadmeRanges /\ call.temp = 150
    /\ result = << [speed |-> 100, hyst |-> 0] >>

(* num/den rounded to the nearest integer, halves away from zero (den > 0). *)
RoundHalfAway(num, den) ==
    IF num >= 0 THEN (2 * num + den) \div (2 * den)
    ELSE -((2 * (-num) + den) \div (2 * den))

(* The setpoint pairs around temp.                                         *)
Around(temp, points) ==
    { i \in 1..(Len(points) - 1) : points[i].temp <= temp /\ temp < points[i + 1].temp }

(* C10: between the first and the last setpoint, at or above floorEndTemp, *)
(* exactly one pair of adjacent setpoints a, b has a.temp <= temp < b.temp *)
(* and the lookup returns a.speed + (temp - a.temp) * (b.speed - a.speed)  *)
(* / (b.temp - a.temp) rounded to the nearest integer, halves away from    *)
(* zero, clamped to 0..100, with a.hyst.  With the README configuration    *)
(* the speed at 50 is 55.                                                  *)
C10_Interpolation ==
    SpeedAtReturned =>
        LET temp == call.temp
            p    == call.prof
        IN (/\ p.floorEndTemp <= temp
            /\ p.points # <<>>
            /\ p.points[1].temp <= temp
            /\ temp < p.points[Len(p.points)].temp) =>
              /\ Cardinality(Around(temp, p.points)) = 1
              /\ \A i \in Around(temp, p.points) :
                    LET a == p.points[i]
                        b == p.points[i + 1]
                        den == b.temp - a.temp
                        num == a.speed * den + (temp - a.temp) * (b.speed - a.speed)
                    IN result[1] = [speed |-> clampInt(RoundHalfAway(num, den), 0, 100),
                                    hyst  |-> a.hyst]
              /\ (call.ranges = ReadmeRanges /\ temp = 50) => result[1].speed = 55

-----------------------------------------------------------------------------
(* Properties of the profile builder.                                      *)

BuildReturned == call.fn = "buildCurveProfileFromRanges" /\ result # <<>>

(* x comes before y in the order ascending by (minTemp, maxTemp).          *)
MinMaxBefore(x, y) ==
    \/ x.MinTemperature < y.MinTemperature
    \/ x.MinTemperature = y.MinTemperature /\ x.MaxTemperature < y.MaxTemperature

(* The place in the list given of the range a stable sort puts first.      *)
FloorIndex(ranges) ==
    CHOOSE i \in 1..Len(ranges) :
        \A j \in (1..Len(ranges)) \ {i} :
            \/ MinMaxBefore(ranges[i], ranges[j])
            \/ ~MinMaxBefore(ranges[j], ranges[i]) /\ i < j

Clamp100(v) == IF v < 0 THEN 0 ELSE IF v > 100 THEN 100 ELSE v

PointOf(r) == [temp |-> r.MinTemperature, speed |-> Clamp100(r.FanSpeed),
               hyst |-> r.Hysteresis]

ReadmeProfile ==
    [floorEndTemp |-> 40, floorSpeed |-> 30, floorHyst |-> 3,
     points |-> << [temp |-> 40, speed |-> 40, hyst |-> 3],
                   [temp |-> 60, speed |-> 70, hyst |-> 3],
                   [temp |-> 80, speed |-> 100, hyst |-> 3],
                   [temp |-> 100, speed |-> 100, hyst |-> 0] >>]

(* C11: for a non-empty list the builder returns no error, the floor is   *)
(* the range a stable sort ascending by (minTemp, maxTemp) puts first,     *)
(* with floorEndTemp its maxTemp, floorSpeed its fanSpeed clamped to       *)
(* 0..100 and floorHyst its hysteresis; every other range gives a point    *)
(* (minTemp, clamped fanSpeed, hysteresis): each setpoint returned is the  *)
(* point of one of them, each of them has a setpoint at its minTemp, and   *)
(* there is one setpoint for each when their minTemps differ; the list     *)
(* given is as it was; the README's five ranges give floor (40, 30, 3) and *)
(* the setpoints (40,40,3), (60,70,3), (80,100,3), (100,100,0).            *)
C11_Builder ==
    [][ (call.fn = "buildCurveProfileFromRanges" /\ result = <<>> /\ result' # <<>>) =>
        \A ranges \in {call.ranges} : \A r \in {result'[1]} :
          /\ call'.ranges = ranges
          /\ ranges # <<>> =>
               \A f \in {FloorIndex(ranges)} :
               LET others == (1..Len(ranges)) \ {f}
                   points == r.prof.points
               IN /\ ~r.err
                  /\ r.prof.floorEndTemp = ranges[f].MaxTemperature
                  /\ r.prof.floorSpeed = Clamp100(ranges[f].FanSpeed)
                  /\ r.prof.floorHyst = ranges[f].Hysteresis
                  /\ \A i \in others : \E k \in DOMAIN points :
                         points[k].temp = ranges[i].MinTemperature
                  /\ \A k \in DOMAIN points : \E i \in others :
                         points[k] = PointOf(ranges[i])
                  /\ (\A i, j \in others :
                         i # j => ranges[i].MinTemperature # ranges[j].MinTemperature)
                     => Len(points) = Len(ranges) - 1
          /\ ranges = ReadmeRanges => r.prof = ReadmeProfile
      ]_vars

(* Three ranges given with the floor last, none sharing a minTemp.         *)
C11_Witness ==
    /\ BuildReturned
    /\ Len(call.ranges) = 3
    /\ FloorIndex(call.ranges) = 3
    /\ Len(result[1].prof.points) = 2
    /\ result[1].prof.floorEndTemp = call.ranges[3].MaxTemperature

(* C12: the setpoints returned for a non-empty list are strictly           *)
(* increasing in temp; each is the point of the range that the (minTemp,   *)
(* maxTemp) order, stable, puts last among the non-floor ranges of that    *)
(* minTemp; one range alone gives no setpoint, and speedAt then returns    *)
(* floorSpeed at every temperature.                                        *)
C12_Setpoints ==
    /\ (BuildReturned /\ call.ranges # <<>>) =>
         \A ranges \in {call.ranges} : \A f \in {FloorIndex(call.ranges)} :
         LET points == result[1].prof.points
             others == (1..Len(ranges)) \ {f}
         IN /\ \A k \in 1..(Len(points) - 1) : points[k].temp < points[k + 1].temp
            /\ \A k \in DOMAIN points :
                 LET same == { i \in others : ranges[i].MinTemperature = points[k].temp }
                 IN \E i \in same :
                      /\ \A j \in same \ {i} :
                            \/ MinMaxBefore(ranges[j], ranges[i])
                            \/ ~MinMaxBefore(ranges[i], ranges[j]) /\ j < i
                      /\ points[k] = PointOf(ranges[i])
            /\ Len(ranges) = 1 => points = <<>>
    /\ (SpeedAtReturned /\ Len(call.ranges) = 1) =>
         /\ call.prof.points = <<>>
         /\ result[1].speed = Clamp100(call.ranges[1].FanSpeed)
         /\ result[1].hyst = call.ranges[1].Hysteresis

(* Two non-floor ranges share a minTemp; the one given first has the       *)
(* greater maxTemp and is the setpoint.                                    *)
C12_Witness ==
    /\ BuildReturned
    /\ Len(call.ranges) = 3
    /\ FloorIndex(call.ranges) = 3
    /\ call.ranges[1].MinTemperature = call.ranges[2].MinTemperature
    /\ call.ranges[1].MaxTemperature > call.ranges[2].MaxTemperature
    /\ result[1].prof.points = << PointOf(call.ranges[1]) >>
    /\ PointOf(call.ranges[1]) # PointOf(call.ranges[2])

-----------------------------------------------------------------------------
(* Properties of the daemon: failures.                                     *)

(* C13: every iteration of the pass over the devices, failed or not, is    *)
(* followed by the next device's, and the pass by the next tick; a device  *)
(* with fans is asked for its handle whatever happened to the devices      *)
(* before it; in an iteration in which a call for a fan failed every fan   *)
(* of the device is treated as its own state demands: the AUTO policy      *)
(* call in AUTO, and otherwise calls exactly when the policy's speed is    *)
(* not its lastKnownSpeed (and, in MANUAL, the temperature is not within   *)
(* hyst of lastChangeTemp).                                                *)
C13_FailureIsolation ==
    [][ /\ Iterating =>
             /\ idx' = idx + 1
             /\ read'.dev = idx
             /\ fanCounts[idx] # 0 => read'.handle # NOT_CALLED
        /\ ~Iterating => idx' = 1
        /\ (TickRead /\ \E k \in DOMAIN calls' : calls'[k].ret # SUCCESS) =>
             \A f \in FanIds(idx) : \A cs \in {CallsOfFan(calls', f)} :
                LET temp == read'.temp
                    last == prevFanSpeeds[idx][f]
                IN IF useCurve /\ inAuto'[idx]
                   THEN /\ Len(cs) = 1
                        /\ cs[1].policy = FAN_POLICY_TEMPERATURE_CONTINOUS_SW
                   ELSE IF useCurve
                   THEN \A sp \in {curveSpeedForTempWithProfile(temp, prof)} :
                          cs # <<>> <=>
                            (sp[1] # last /\ abs(temp - lastFanChangeTemp[idx]) >= sp[2])
                   ELSE cs # <<>> <=>
                          getFanSpeedForTemperature(temp, prevTemps[idx], last,
                                                    config.TemperatureRanges) # last
      ]_vars

(* The second device was read in a tick although the first, which has a    *)
(* fan, never gave a temperature, in this tick either.                     *)
C13_Witness ==
    /\ read.dev = 2 /\ read.tempRet = SUCCESS
    /\ fanCounts[1] > 0 /\ fanCounts[2] > 0
    /\ prevTemps[1] \notin TickTemps
    /\ prevTemps[2] = read.temp

(* C14: in an iteration a fan's lastKnownSpeed changes only if             *)
(* setFanPolicy(MANUAL) and then setFanSpeed(v) succeeded for it, and is   *)
(* then v; a speed write that succeeded is stored; the speeds of the other *)
(* devices stay; when the handle or the temperature cannot be read,        *)
(* lastKnownTemp, lastKnownSpeed, lastChangeTemp and the mode stay.        *)
C14_StateUnchangedOnError ==
    [][ /\ Iterating =>
             /\ \A f \in FanIds(idx) : \A cs \in {CallsOfFan(calls', f)} :
                  /\ prevFanSpeeds'[idx][f] # prevFanSpeeds[idx][f] =>
                        /\ Len(cs) = 2
                        /\ cs[1].fn = "DeviceSetFanControlPolicy"
                        /\ cs[1].policy = FAN_POLICY_MANUAL /\ cs[1].ret = SUCCESS
                        /\ cs[2].fn = "DeviceSetFanSpeed_v2" /\ cs[2].ret = SUCCESS
                        /\ cs[2].speed = prevFanSpeeds'[idx][f]
                  /\ \A k \in DOMAIN cs :
                        (cs[k].fn = "DeviceSetFanSpeed_v2" /\ cs[k].ret = SUCCESS) =>
                            prevFanSpeeds'[idx][f] = cs[k].speed
             /\ \A d \in Devices \ {idx} : prevFanSpeeds'[d] = prevFanSpeeds[d]
             /\ read'.tempRet # SUCCESS =>
                  /\ calls' = <<>>
                  /\ UNCHANGED <<prevTemps, prevFanSpeeds, lastFanChangeTemp, inAuto>>
        /\ ~Iterating => UNCHANGED <<prevTemps, prevFanSpeeds, lastFanChangeTemp, inAuto>>
      ]_vars

(* The policy call of the first fan succeeded, its speed write failed, and *)
(* lastKnownSpeed is not the speed that was to be written.                 *)
C14_Witness ==
    /\ read.dev = 1 /\ read.tempRet = SUCCESS
    /\ Len(calls) = 2
    /\ calls[1].fn = "DeviceSetFanControlPolicy" /\ calls[1].ret = SUCCESS
    /\ calls[2].fn = "DeviceSetFanSpeed_v2" /\ calls[2].ret = ERROR_UNKNOWN
    /\ calls[2].fan = 1
    /\ prevFanSpeeds[1][1] # calls[2].speed

(* The temperature of a device in MANUAL that was read at 43 before could  *)
(* not be read: its state is the one the earlier tick left.                *)
C14_WitnessReadFailed ==
    /\ read.dev = 2 /\ read.tempRet = ERROR_UNKNOWN
    /\ useCurve /\ ~inAuto[2] /\ prevTemps[2] = 43 /\ lastFanChangeTemp[2] = 43

(* C15: with curve mode requested and no temperature_ranges the builder    *)
(* returns its error, the daemon runs (a step is always possible), the     *)
(* step policy is the one in use in every state, no iteration issues a     *)
(* call and the curve's reference temperatures are never written.          *)
C15_CurveFallback ==
    (config.Curve /\ config.TemperatureRanges = <<>>) =>
        /\ buildCurveProfileFromRanges(config.TemperatureRanges).err
        /\ ~useCurve
        /\ calls = <<>>
        /\ \A d \in Devices : lastFanChangeTemp[d] \notin TickTemps
        /\ ENABLED Next

(* A tick read 43 for the first device, whose fan holds 30, under the      *)
(* empty configuration with the curve requested: nothing was called.       *)
C15_Witness ==
    /\ config.Curve /\ config.TemperatureRanges = <<>>
    /\ ~useCurve
    /\ read.dev = 1 /\ read.tempRet = SUCCESS /\ read.temp = 43
    /\ prevTemps[1] = 43 /\ prevFanSpeeds[1][1] = 30
    /\ calls = <<>>

(* C16: after a tick of a device in MANUAL its lastChangeTemp is the       *)
(* temperature read if a speed write of one of its fans succeeded and is   *)
(* unchanged if none did; the other devices' are unchanged; every fan of   *)
(* the device is held or written by the comparison of the temperature      *)
(* with the lastChangeTemp from before the tick, the fans after a written  *)
(* one too.                                                                *)
C16_SharedReference ==
    [][ (TickRead /\ useCurve /\ ~inAuto'[idx]) =>
          \A sp \in {curveSpeedForTempWithProfile(read'.temp, prof)} :
          LET temp    == read'.temp
              before  == lastFanChangeTemp[idx]
              written == \E k \in SpeedCalls(calls') : calls'[k].ret = SUCCESS
          IN /\ lastFanChangeTemp'[idx] = IF written THEN temp ELSE before
             /\ \A d \in Devices \ {idx} : lastFanChangeTemp'[d] = lastFanChangeTemp[d]
             /\ \A f \in FanIds(idx) :
                   CallsOfFan(calls', f) = <<>> <=>
                      (sp[1] = prevFanSpeeds[idx][f] \/ abs(temp - before) < sp[2])
      ]_vars

(* Both fans of a device in MANUAL were written in one tick, with a        *)
(* hysteresis above 0: the second was not held by the first one's write.   *)
C16_Witness ==
    /\ useCurve /\ read.dev = 1 /\ read.tempRet = SUCCESS /\ ~inAuto[1]
    /\ fanCounts[1] = 2
    /\ Len(calls) = 4
    /\ \A k \in 1..4 : calls[k].ret = SUCCESS
    /\ calls[2].fan = 1 /\ calls[4].fan = 2
    /\ lastFanChangeTemp[1] = read.temp
    /\ curveSpeedForTempWithProfile(read.temp, prof)[2] > 0

-----------------------------------------------------------------------------
(* Properties of the commands.                                             *)

CommandReturned == call.fn = "main" /\ result # <<>>

SpeedOutOfRange ==
    call.speed.kind = "int" /\ (call.speed.value < 0 \/ call.speed.value > 100)

(* C17: `set` with a -speed below 0 or above 100 fails without a single    *)
(* hardware call: no nvml.Init, no device lookup, no policy or speed call. *)
C17_SpeedRejectedFirst ==
    (CommandReturned /\ call.cmd = "set" /\ SpeedOutOfRange) =>
        /\ result[1].calls = <<>>
        /\ result[1].exit # 0

(* `set -speed 101` with a fan list that parses: rejected by cmdSet.       *)
C17_Witness ==
    /\ CommandReturned /\ call.cmd = "set"
    /\ call.speed = SpeedFlag("int", 101)
    /\ call.fans = <<"0", ",", "1">>
    /\ result[1].calls = <<>>
    /\ result[1].exit # 0

(* C18: `set` and `auto` exit with code 2 whenever an argument is not      *)
(* valid: a -speed outside 0..100, above 100 too, or a fan list that is    *)
(* empty or does not parse.                                                *)
C18_ValidationExitsTwo ==
    (/\ CommandReturned
     /\ \/ call.cmd = "set" /\ SpeedOutOfRange
        \/ parseFanList(call.fans).err)
    => result[1].exit = 2

-----------------------------------------------------------------------------
(* Properties of the daemon: the way back to MANUAL.                       *)

(* C19: in the tick that takes a device from AUTO to MANUAL every fan      *)
(* whose lastKnownSpeed is not the curve's target gets the calls, and      *)
(* holds the target when they succeed, whatever the AUTO tick before read. *)
C19_ReentryNotBlocked ==
    [][ (TickRead /\ useCurve /\ inAuto[idx] /\ ~inAuto'[idx]) =>
          \A sp \in {curveSpeedForTempWithProfile(read'.temp, prof)} :
          \A f \in FanIds(idx) : \A cs \in {CallsOfFan(calls', f)} :
             sp[1] # prevFanSpeeds[idx][f] =>
                /\ cs # <<>>
                /\ (\A k \in DOMAIN cs : cs[k].ret = SUCCESS) =>
                       prevFanSpeeds'[idx][f] = sp[1]
      ]_vars

(* C20: in curve mode, as long as every hardware call has succeeded, a     *)
(* device whose iteration left it in MANUAL has the manual policy on each  *)
(* of its fans, and one left in AUTO the automatic policy.                 *)
C20_ModeAndPolicyAgree ==
    (/\ useCurve
     /\ hwPolicy.status = "followed"
     /\ read.dev \in Devices /\ read.tempRet = SUCCESS)
    => \A f \in FanIds(read.dev) :
          hwPolicy.fan[read.dev][f] =
             IF inAuto[read.dev] THEN FAN_POLICY_TEMPERATURE_CONTINOUS_SW
             ELSE FAN_POLICY_MANUAL

(* The run the two claims fail on: an AUTO tick at 42 set the automatic    *)
(* policy, the tick at 43 made the device MANUAL and called nothing.       *)
ReentryHeld ==
    /\ useCurve /\ hwPolicy.status = "followed"
    /\ read.dev = 1 /\ read.tempRet = SUCCESS /\ read.temp = 43
    /\ ~inAuto[1] /\ lastFanChangeTemp[1] = 42
    /\ calls = <<>>
    /\ hwPolicy.fan[1][1] = FAN_POLICY_TEMPERATURE_CONTINOUS_SW
    /\ prevFanSpeeds[1][1] # curveSpeedForTempWithProfile(43, prof)[1]

-----------------------------------------------------------------------------
(* Properties of the step policy: its hysteresis.                          *)

(* C23: when some range of the list contains temp, the step policy returns *)
(* the FanSpeed of the first such range, whatever prevTemp, prevSpeed and  *)
(* the range's Hysteresis are.                                             *)
C23_StepHysteresisWithoutEffect ==
    StepPolicyReturned =>
        \A k \in DOMAIN call.ranges :
            (/\ call.temp > call.ranges[k].MinTemperature
             /\ call.temp <= call.ranges[k].MaxTemperature
             /\ \A j \in 1..(k - 1) :
                    ~(/\ call.temp > call.ranges[j].MinTemperature
                      /\ call.temp <= call.ranges[j].MaxTemperature))
            => result[1] = call.ranges[k].FanSpeed

(* temp is prevTemp, within the hysteresis 3 of the range (4, 6], and the  *)
(* speed before is not the range's: the range's speed is returned.         *)
C23_Witness ==
    /\ StepPolicyReturned
    /\ call.temp = 5 /\ call.prevTemp = 5 /\ call.prevSpeed = 0
    /\ call.ranges[1] = TemperatureRange(4, 6, 30, 3)
    /\ result = <<30>>

-----------------------------------------------------------------------------
(* Properties of the curve: the range of its speeds.                       *)

(* C25: for every non-empty range list, with fan speeds below 0 and above  *)
(* 100 among the ranges, floorSpeed and the speed of every setpoint of the *)
(* profile built are within 0..100, and so is every speed the lookup       *)
(* returns, which is the value the MANUAL branch hands to setFanSpeed.     *)
C25_CurveSpeedsBounded ==
    /\ (BuildReturned /\ call.ranges # <<>>) =>
         /\ result[1].prof.floorSpeed \in 0..100
         /\ \A k \in DOMAIN result[1].prof.points :
               result[1].prof.points[k].speed \in 0..100
    /\ SpeedAtReturned => result[1].speed \in 0..100

(* The floor range asks for 120: the lookup returns 100 below floorEndTemp. *)
C25_Witness ==
    /\ SpeedAtReturned
    /\ call.ranges[FloorIndex(call.ranges)].FanSpeed = 120
    /\ call.temp < call.prof.floorEndTemp
    /\ result[1].speed = 100

(* A setpoint asks for -5: the lookup returns 0 at its temp.               *)
C25_WitnessBelow ==
    /\ SpeedAtReturned
    /\ Len(call.prof.points) = 1
    /\ \E k \in DOMAIN call.ranges :
          /\ k # FloorIndex(call.ranges)
          /\ call.ranges[k].FanSpeed < 0
    /\ call.temp >= call.prof.points[1].temp /\ call.temp >= call.prof.floorEndTemp
    /\ result[1].speed = 0

-----------------------------------------------------------------------------
(* Properties of the daemon: the devices among themselves.                 *)

(* C22: the iteration at device idx, in any mode and whatever fails,       *)
(* leaves lastKnownTemp, lastKnownSpeed, lastChangeTemp and the mode of    *)
(* every other device as they were and calls for fans of idx only; a       *)
(* device without fans is not asked for its handle or its temperature,     *)
(* gets no call and keeps its state; between two passes nothing changes.   *)
C22_DeviceIndependence ==
    [][ /\ Iterating =>
             /\ \A d \in Devices \ {idx} :
                   /\ prevTemps'[d] = prevTemps[d]
                   /\ prevFanSpeeds'[d] = prevFanSpeeds[d]
                   /\ lastFanChangeTemp'[d] = lastFanChangeTemp[d]
                   /\ inAuto'[d] = inAuto[d]
             /\ read'.dev = idx
             /\ \A k \in DOMAIN calls' : calls'[k].fan \in FanIds(idx)
             /\ fanCounts[idx] = 0 =>
                   /\ read'.handle = NOT_CALLED /\ read'.tempRet = NOT_CALLED
                   /\ calls' = <<>>
                   /\ UNCHANGED <<prevTemps, prevFanSpeeds, lastFanChangeTemp, inAuto>>
        /\ ~Iterating => UNCHANGED <<prevTemps, prevFanSpeeds, lastFanChangeTemp, inAuto>>
      ]_vars

(* The second device was written in MANUAL at 43 while the first keeps     *)
(* the AUTO mode, the 37 and the speed of its own iteration.               *)
C22_Witness ==
    /\ useCurve /\ fanCounts[1] = 1 /\ fanCounts[2] = 1
    /\ read.dev = 2 /\ read.tempRet = SUCCESS /\ read.temp = 43
    /\ ~inAuto[2] /\ prevTemps[2] = 43 /\ lastFanChangeTemp[2] = 43
    /\ Len(calls) = 2 /\ calls[2].ret = SUCCESS
    /\ prevFanSpeeds[2][1] = 45
    /\ inAuto[1] /\ prevTemps[1] = 37 /\ lastFanChangeTemp[1] = 37
    /\ prevFanSpeeds[1][1] # 45

(* A device without fans was passed over after the first one was read.     *)
C22_WitnessNoFans ==
    /\ fanCounts[2] = 0
    /\ read.dev = 2 /\ read.handle = NOT_CALLED
    /\ prevTemps[1] = 43 /\ prevTemps[2] = 0 /\ lastFanChangeTemp[2] = 0

-----------------------------------------------------------------------------
(* Properties of the mode decision on its own.                             *)

(* The ticks so far after which the mode is not the one before the tick.   *)
ModeChanges ==
    { k \in DOMAIN result :
        result[k] # (IF k = 1 THEN call.auto ELSE result[k - 1]) }

(* C21: whatever floorEndTemp, floorHyst >= 0 and the mode at the start,   *)
(* over ticks that all read the same temperature the mode changes at most  *)
(* once.                                                                   *)
C21_NoOscillation ==
    call.fn = "decideInAuto" => Cardinality(ModeChanges) <= 1

-----------------------------------------------------------------------------
(* Properties of the step mode at a steady temperature.                    *)

(* The speed of the first range that contains the steady temperature.      *)
SteadyTarget ==
    config.TemperatureRanges[FirstInBand(call.temp, config.TemperatureRanges)].FanSpeed

SteadyMatches ==
    call.fn = "steady" /\ FirstInBand(call.temp, config.TemperatureRanges) # 0

Converged == prevFanSpeeds[call.dev][call.fan] = SteadyTarget

(* C24: in step mode, when every tick reads the same temperature, one that *)
(* some range contains, and the writes of a fan succeed in the end, that   *)
(* fan's lastKnownSpeed is in the end, and from then on, the FanSpeed of   *)
(* the first range that contains the temperature; in every tick any fan    *)
(* whose lastKnownSpeed is not that speed is written again.                *)
C24_StepConvergence ==
    /\ <>[](SteadyMatches => Converged)
    /\ [][ (SteadyMatches /\ TickRead) =>
             \A f \in FanIds(idx) :
                prevFanSpeeds[idx][f] # SteadyTarget =>
                   /\ CallsOfFan(calls', f) # <<>>
                   /\ CallsOfFan(calls', f)[1].fn = "DeviceSetFanControlPolicy"
          ]_vars

(* The fan is written with success in a tick that reads what the tick      *)
(* before read, in which the write had failed.                             *)
C24_Witness ==
    /\ SteadyMatches /\ ~useCurve
    /\ read.dev = call.dev /\ read.tempRet = SUCCESS /\ read.repeat
    /\ read.temp = call.temp
    /\ \E k \in SpeedCalls(calls) :
          /\ calls[k].fan = call.fan
          /\ calls[k].ret = SUCCESS
          /\ calls[k].speed = SteadyTarget
    /\ Converged

=============================================================================
